---- MODULE Spec2Model ----
(***************************************************************************)
(* CME analysis platform: the transcript classification pass of            *)
(* backend/lambda_functions/cme_nlp_processor.py (test intent detection    *)
(* and examiner demeanor analysis) as a state machine.                     *)
(*                                                                         *)
(* Texts are TLA+ strings; Python's `in`, str.lower, slicing, ' '.join and *)
(* re.search are modelled character by character.  Confidences are exact   *)
(* rationals scaled by ConfScale; for every keyword count of the taxonomy  *)
(* the comparisons >= 0.5, > 0 and min(c, 1.0) of the binary floating      *)
(* point computation agree with the exact ones.                            *)
(***************************************************************************)
EXTENDS Integers, Sequences, FiniteSets, TLC

(***************************************************************************)
(* Strings                                                                 *)
(***************************************************************************)

\* s[i] of Python, 1-based
Char(s, i) == SubSeq(s, i, i)

\* s[:n]
Prefix(s, n) == SubSeq(s, 1, IF Len(s) < n THEN Len(s) ELSE n)

\* sub in s
Contains(sub, s) ==
    \E i \in 1..(Len(s) - Len(sub) + 1) : SubSeq(s, i, i + Len(sub) - 1) = sub

UpperToLower ==
    [A |-> "a", B |-> "b", C |-> "c", D |-> "d", E |-> "e", F |-> "f",
     G |-> "g", H |-> "h", I |-> "i", J |-> "j", K |-> "k", L |-> "l",
     M |-> "m", N |-> "n", O |-> "o", P |-> "p", Q |-> "q", R |-> "r",
     S |-> "s", T |-> "t", U |-> "u", V |-> "v", W |-> "w", X |-> "x",
     Y |-> "y", Z |-> "z"]

LowerChar(c) == IF c \in DOMAIN UpperToLower THEN UpperToLower[c] ELSE c

RECURSIVE LowerFrom(_, _, _)
\* the characters i..j of s in lower case, the range split in halves
LowerFrom(s, i, j) ==
    IF i > j THEN ""
    ELSE IF i = j THEN LowerChar(Char(s, i))
    ELSE LowerFrom(s, i, (i + j) \div 2) \o LowerFrom(s, (i + j) \div 2 + 1, j)

\* s.lower()
Lower(s) == LowerFrom(s, 1, Len(s))

Digits == <<"0", "1", "2", "3", "4", "5", "6", "7", "8", "9">>

\* the value of a decimal digit, -1 for any other character
DigitValue(c) ==
    IF \E d \in DOMAIN Digits : Digits[d] = c
    THEN (CHOOSE d \in DOMAIN Digits : Digits[d] = c) - 1
    ELSE -1

\* whether float(s) succeeds: the numerals of whole seconds, "0", "12", ...
IsNumeral(s) ==
    Len(s) > 0 /\ \A i \in 1..Len(s) : DigitValue(Char(s, i)) >= 0

RECURSIVE ParseFrom(_, _, _)
ParseFrom(s, i, acc) ==
    IF i > Len(s) THEN acc ELSE ParseFrom(s, i + 1, 10 * acc + DigitValue(Char(s, i)))

\* float(s) for a numeral s
ParseFloat(s) == ParseFrom(s, 1, 0)

RECURSIVE Str(_)
\* str(n), the decimal numeral of a natural number
Str(n) ==
    IF n < 10 THEN Digits[n + 1] ELSE Str(n \div 10) \o Digits[(n % 10) + 1]

\* d.get(k, default) for a dict d
Get(d, k, default) == IF k \in DOMAIN d THEN d[k] ELSE default

\* float(d.get(k, 0)): the default is already a number
FloatField(d, k) == IF k \in DOMAIN d THEN ParseFloat(d[k]) ELSE 0

\* whether float(d.get(k, 0)) raises: the value is there and is no numeral
FloatRaises(d, k) == k \in DOMAIN d /\ ~IsNumeral(d[k])

\* the empty dict {}
EmptyDict == <<>>

\* Python's None, as a speaker label no segment carries
None == "None"

\* a value that is not a mapping (None, a list, ...), tagged with its type:
\* calling .get on it raises AttributeError
NotAMapping == [python_type |-> "NoneType"]
IsMapping(v) == "python_type" \notin DOMAIN v

RECURSIVE Join(_)
\* ' '.join(words)
Join(words) ==
    IF words = <<>> THEN ""
    ELSE IF Len(words) = 1 THEN words[1]
    ELSE words[1] \o " " \o Join(Tail(words))

(***************************************************************************)
(* Regular expressions: the constructs the module's patterns use.  A       *)
(* pattern is a sequence of nodes; SeqEnds gives every position at which a *)
(* match of the sequence begun at a position of P can end, so re.search    *)
(* succeeds iff some end position exists.                                  *)
(***************************************************************************)

Lit(s)    == [k |-> "lit", s |-> s]          \* literal text
WS        == [k |-> "ws"]                    \* \s+
Opt(r)    == [k |-> "opt", r |-> r]          \* (?:r)?
Alt(rs)   == [k |-> "alt", rs |-> rs]        \* (?:r1|r2|...)
Cls(cs)   == [k |-> "cls", cs |-> cs]        \* [cs], one character
Star(cs)  == [k |-> "star", cs |-> cs]       \* [cs]*

Spaces == {" ", "\t", "\n", "\r", "\f"}

\* a character of a class; the member "\\s" stands for any whitespace
InClass(c, cs) == c \in cs \/ ("\\s" \in cs /\ c \in Spaces)

RECURSIVE SeqEnds(_, _, _)
NodeEnds(n, text, P) ==
    CASE n.k = "lit" ->
           {p + Len(n.s) : p \in {q \in P : /\ q + Len(n.s) - 1 <= Len(text)
                                           /\ SubSeq(text, q, q + Len(n.s) - 1) = n.s}}
      [] n.k = "ws" ->
           {e \in 2..(Len(text) + 1) :
               \E p \in P : p < e /\ \A j \in p..(e - 1) : Char(text, j) \in Spaces}
      [] n.k = "opt" -> P \cup SeqEnds(n.r, text, P)
      [] n.k = "alt" -> UNION {SeqEnds(n.rs[i], text, P) : i \in DOMAIN n.rs}
      [] n.k = "cls" ->
           {p + 1 : p \in {q \in P : q <= Len(text) /\ InClass(Char(text, q), n.cs)}}
      [] n.k = "star" ->
           {e \in 1..(Len(text) + 1) :
               \E p \in P : p <= e /\ \A j \in p..(e - 1) : InClass(Char(text, j), n.cs)}

SeqEnds(re, text, P) ==
    IF re = <<>> \/ P = {} THEN P
    ELSE SeqEnds(Tail(re), text, NodeEnds(Head(re), text, P))

\* re.search(pattern, text) is not None
Search(re, text) == SeqEnds(re, text, 1..(Len(text) + 1)) # {}

\* (?:w1|w2|...) over literal words
AltL(ws) == Alt([i \in DOMAIN ws |-> <<Lit(ws[i])>>])

(***************************************************************************)
(* Taxonomy registry (TEST_TAXONOMY and the demeanor tables), in source    *)
(* order.                                                                  *)
(***************************************************************************)

\* the keys of TEST_TAXONOMY in dict (insertion) order
TestLabels ==
    <<"spine", "lumbar_rom", "straight_leg_raise", "waddells_signs",
      "cervical_rom", "gait", "neurological", "palpation", "orthopedic",
      "cognitive">>

TEST_TAXONOMY ==
    [spine |->
       [keywords |-> <<"spine", "spinal", "vertebra", "vertebrae", "back">>,
        patterns |->
          << <<Lit("check"), WS, Opt(<<Lit("the"), WS>>), Lit("spine")>>,
             <<Lit("examine"), WS, Opt(<<Lit("the"), WS>>), Lit("back")>>,
             <<Lit("spinal"), WS, AltL(<<"examination", "assessment">>)>> >>],
     lumbar_rom |->
       [keywords |-> <<"lumbar", "lower back", "range of motion", "rom",
                       "flexion", "extension", "bend forward", "bend backward">>,
        patterns |->
          << <<Alt(<< <<Lit("lumbar")>>, <<Lit("lower"), WS, Lit("back")>> >>),
               WS, Lit("range"), WS, Lit("of"), WS, Lit("motion")>>,
             <<AltL(<<"forward", "backward">>), WS, AltL(<<"flexion", "bending">>)>>,
             <<Lit("rom"), WS, Lit("test")>> >>],
     straight_leg_raise |->
       [keywords |-> <<"straight leg", "slr", "leg raise", "lasegue",
                       "raise your leg">>,
        patterns |->
          << <<Lit("straight"), WS, Lit("leg"), WS, AltL(<<"raise", "test">>)>>,
             <<Lit("slr"), WS, Lit("test")>>,
             <<Lit("lasegue"), Star({"'", "s"}), WS, AltL(<<"test", "sign">>)>> >>],
     waddells_signs |->
       [keywords |-> <<"waddell", "non-organic", "behavioral", "non organic">>,
        patterns |->
          << <<Lit("waddell"), Star({"'", "s"}), WS, AltL(<<"signs", "test">>)>>,
             <<Lit("non"), Cls({"-", "\\s"}), Lit("organic"), WS,
               AltL(<<"signs", "findings">>)>> >>],
     cervical_rom |->
       [keywords |-> <<"cervical", "neck", "rotation", "lateral flexion",
                       "turn your head", "neck movement">>,
        patterns |->
          << <<Lit("cervical"), WS,
               Alt(<< <<Lit("range"), WS, Lit("of"), WS, Lit("motion")>>,
                      <<Lit("rom")>> >>)>>,
             <<Lit("neck"), WS, AltL(<<"rotation", "flexion", "movement">>)>>,
             <<Lit("turn"), WS, Opt(<<Lit("your"), WS>>), Lit("head")>> >>],
     gait |->
       [keywords |-> <<"gait", "walking", "ambulation", "mobility", "walk",
                       "heel-to-toe", "tandem">>,
        patterns |->
          << <<Lit("gait"), WS, AltL(<<"analysis", "assessment", "test">>)>>,
             <<AltL(<<"walk", "walking">>), WS, AltL(<<"test", "assessment">>)>>,
             <<Lit("heel"), Cls({"-", "\\s"}), Lit("to"), Cls({"-", "\\s"}),
               Lit("toe")>>,
             <<Lit("tandem"), WS, AltL(<<"walk", "gait">>)>> >>],
     neurological |->
       [keywords |-> <<"reflex", "reflexes", "sensation", "sensory", "motor",
                       "strength", "muscle strength", "patellar", "achilles">>,
        patterns |->
          << <<AltL(<<"reflex", "reflexes">>), WS, Lit("test")>>,
             <<AltL(<<"sensory", "sensation">>), WS, AltL(<<"test", "examination">>)>>,
             <<Lit("motor"), WS, AltL(<<"strength", "function">>)>>,
             <<AltL(<<"patellar", "achilles", "bicep", "tricep">>), WS,
               Lit("reflex")>> >>],
     palpation |->
       [keywords |-> <<"palpate", "palpating", "feel", "touch", "tender",
                       "tenderness", "press">>,
        patterns |->
          << <<AltL(<<"palpate", "palpating">>), WS, Opt(<<Lit("the"), WS>>),
               AltL(<<"spine", "back", "neck", "area">>)>>,
             <<Lit("check"), WS, Lit("for"), WS, Lit("tenderness")>>,
             <<Lit("feel"), WS, Opt(<<Lit("the"), WS>>),
               AltL(<<"spine", "muscles">>)>> >>],
     orthopedic |->
       [keywords |-> <<"orthopedic", "musculoskeletal", "joint", "hip", "knee",
                       "shoulder", "ankle">>,
        patterns |->
          << <<Lit("orthopedic"), WS, AltL(<<"examination", "assessment", "test">>)>>,
             <<AltL(<<"hip", "knee", "shoulder", "ankle">>), WS,
               AltL(<<"test", "examination">>)>>,
             <<Lit("joint"), WS, AltL(<<"mobility", "function">>)>> >>],
     cognitive |->
       [keywords |-> <<"memory", "concentration", "cognitive", "mental status",
                       "orientation", "recall">>,
        patterns |->
          << <<Lit("cognitive"), WS, AltL(<<"test", "assessment", "function">>)>>,
             <<Lit("mental"), WS, Lit("status"), WS, Lit("exam")>>,
             <<Lit("memory"), WS, Lit("test")>>,
             <<Lit("orientation"), WS, AltL(<<"test", "assessment">>)>> >>]]

NEGATIVE_TONE_INDICATORS ==
    <<"that's ridiculous", "you're lying", "i don't believe", "that's impossible",
      "come on", "really?", "seriously?", "you're exaggerating",
      "that doesn't make sense">>

INTERRUPTION_PATTERNS ==
    << <<Lit("stop"), WS, AltL(<<"talking", "speaking">>)>>,
       <<Lit("let"), WS, Lit("me"), WS, AltL(<<"speak", "talk">>)>>,
       <<Lit("don't"), WS, AltL(<<"interrupt", "talk">>)>>,
       <<Lit("be"), WS, Lit("quiet")>>,
       <<Lit("shut"), WS, Lit("up")>> >>

DISMISSIVE_PATTERNS ==
    << <<Alt(<< <<Lit("doesn't")>>, <<Lit("does"), WS, Lit("not")>> >>), WS,
         Lit("matter")>>,
       <<Lit("not"), WS, Lit("important")>>,
       <<Alt(<< <<Lit("don't")>>, <<Lit("do"), WS, Lit("not")>> >>), WS,
         Lit("care"), WS, Lit("about")>>,
       <<Lit("that's"), WS,
         Alt(<< <<Lit("irrelevant")>>, <<Lit("not"), WS, Lit("relevant")>> >>)>> >>

\* the declaration phrases of _analyze_text_for_tests
declaration_phrases ==
    <<"now we", "let's", "going to", "want to", "need to", "i'm going to",
      "i'm checking", "i need", "we're going to">>

(***************************************************************************)
(* Segment text extractor: _get_segment_text                               *)
(***************************************************************************)

\* item.get('alternatives', [{}])[0].get('content', '')
ItemContent(item) == Get(Get(item, "alternatives", <<EmptyDict>>)[1], "content", "")

\* mutant: the end of the window excluded
InSegment_OpenEnd(item, segment_start, segment_end) ==
    /\ Get(item, "type", None) = "pronunciation"
    /\ segment_start <= FloatField(item, "start_time")
    /\ FloatField(item, "start_time") < segment_end

\* the test of lines 190-192: a pronunciation whose start time is in the window
InSegment(item, segment_start, segment_end) ==
    /\ Get(item, "type", None) = "pronunciation"
    /\ segment_start <= FloatField(item, "start_time")
    /\ FloatField(item, "start_time") <= segment_end

RECURSIVE SegmentWords(_, _, _)
\* the list words after the loop over items
SegmentWords(items, segment_start, segment_end) ==
    IF items = <<>> THEN <<>>
    ELSE (IF InSegment(Head(items), segment_start, segment_end)
          THEN <<ItemContent(Head(items))>> ELSE <<>>)
         \o SegmentWords(Tail(items), segment_start, segment_end)

\* whether the loop body raises on an item: float() of its start time
\* (line 191), or [0] on an empty alternatives list (line 193)
ItemRaises(item, segment_start, segment_end) ==
    /\ Get(item, "type", None) = "pronunciation"
    /\ \/ FloatRaises(item, "start_time")
       \/ /\ InSegment(item, segment_start, segment_end)
          /\ Get(item, "alternatives", <<EmptyDict>>) = <<>>

\* whether _get_segment_text raises (lines 185, 186, 191, 193)
TextRaises(segment, items) ==
    \/ FloatRaises(segment, "start_time")
    \/ FloatRaises(segment, "end_time")
    \/ \E k \in DOMAIN items :
          ItemRaises(items[k], FloatField(segment, "start_time"),
                     FloatField(segment, "end_time"))

_get_segment_text(segment, items) ==
    Join(SegmentWords(items, FloatField(segment, "start_time"),
                      FloatField(segment, "end_time")))

(***************************************************************************)
(* Test intent classifier: _analyze_text_for_tests                         *)
(***************************************************************************)

\* confidences are multiples of 1/ConfScale; every keyword count of the
\* taxonomy (4..9) divides 3 * ConfScale / 10
ConfScale == 10 * 2520
Tenths(n) == n * (ConfScale \div 10)

MinOf(a, b) == IF a < b THEN a ELSE b

\* sum(1 for kw in test_config['keywords'] if kw in text_lower)
KeywordMatches(test_config, text_lower) ==
    Cardinality({i \in DOMAIN test_config.keywords :
                    Contains(test_config.keywords[i], text_lower)})

\* the number of patterns that re.search finds (re.IGNORECASE over patterns
\* written in lower case: the search runs on the case-folded text)
PatternMatches(test_config, text_lower) ==
    LET folded == Lower(text_lower)
    IN  Cardinality({i \in DOMAIN test_config.patterns :
                        Search(test_config.patterns[i], folded)})

\* any(phrase in text_lower for phrase in declaration_phrases)
HasDeclaration(text_lower) ==
    \E i \in DOMAIN declaration_phrases : Contains(declaration_phrases[i], text_lower)

\* mutant: the full lexical weight for any keyword hit
LexicalTerm_AnyKeyword(keyword_matches, n_keywords) ==
    IF keyword_matches > 0 THEN Tenths(3) ELSE 0

\* 0.3 * min(keyword_matches / len(keywords), 1.0), added when keyword_matches > 0
LexicalTerm(keyword_matches, n_keywords) ==
    IF keyword_matches > 0
    THEN (3 * MinOf((keyword_matches * ConfScale) \div n_keywords, ConfScale)) \div 10
    ELSE 0

\* mutant: a structural weight below the threshold
StructuralTerm_Weak(pattern_matches) == IF pattern_matches > 0 THEN Tenths(4) ELSE 0

\* 0.7 when at least one pattern matches
StructuralTerm(pattern_matches) == IF pattern_matches > 0 THEN Tenths(7) ELSE 0

\* mutant: the bonus added without looking at the score so far
DeclarationBonus_Unguarded(has_declaration, confidence) ==
    IF has_declaration THEN Tenths(2) ELSE 0

\* 0.2 when has_declaration and confidence > 0
DeclarationBonus(has_declaration, confidence) ==
    IF has_declaration /\ confidence > 0 THEN Tenths(2) ELSE 0

\* the local variables of one iteration of the loop over the taxonomy (lines
\* 205-229); has_declaration depends on the text alone and is passed in
CategoryLocals(test_label, text_lower, has_declaration) ==
    LET test_config     == TEST_TAXONOMY[test_label]
        keyword_matches == KeywordMatches(test_config, text_lower)
        pattern_matches == PatternMatches(test_config, text_lower)
        c == LexicalTerm(keyword_matches, Len(test_config.keywords))
               + StructuralTerm(pattern_matches)
    IN  [keyword_matches |-> keyword_matches,
         pattern_matches |-> pattern_matches,
         has_declaration |-> has_declaration,
         confidence      |-> c + DeclarationBonus(has_declaration, c)]

\* the locals of every iteration, indexed like TestLabels
AnalyzeLocals(text) ==
    LET text_lower      == Lower(text)
        has_declaration == HasDeclaration(text_lower)
    IN  [i \in DOMAIN TestLabels |->
            CategoryLocals(TestLabels[i], text_lower, has_declaration)]

\* if confidence >= 0.5
MeetsThreshold(confidence) == confidence >= Tenths(5)

MatchedTextLen == 200

\* mutant: the confidence stored without min(confidence, 1.0)
TestEvent_Unclamped(test_label, confidence, text, timestamp) ==
    [label        |-> test_label,
     timestamp    |-> timestamp,
     confidence   |-> confidence,
     matched_text |-> Prefix(text, MatchedTextLen)]

\* mutant: the matched text taken from text_lower
TestEvent_LowerText(test_label, confidence, text, timestamp) ==
    [label        |-> test_label,
     timestamp    |-> timestamp,
     confidence   |-> MinOf(confidence, ConfScale),
     matched_text |-> Prefix(Lower(text), MatchedTextLen)]

\* the dict appended to detected (lines 233-238)
TestEvent(test_label, confidence, text, timestamp) ==
    [label        |-> test_label,
     timestamp    |-> timestamp,
     confidence   |-> MinOf(confidence, ConfScale),
     matched_text |-> Prefix(text, MatchedTextLen)]

RECURSIVE DetectedFrom_FirstOnly(_, _, _, _)
\* mutant: the loop stops at the first category that meets the threshold
DetectedFrom_FirstOnly(locals, text, timestamp, i) ==
    IF i > Len(TestLabels) THEN <<>>
    ELSE IF MeetsThreshold(locals[i].confidence)
         THEN <<TestEvent(TestLabels[i], locals[i].confidence, text, timestamp)>>
         ELSE DetectedFrom_FirstOnly(locals, text, timestamp, i + 1)

RECURSIVE DetectedFrom(_, _, _, _)
\* the list detected built by the iterations i, i+1, ...
DetectedFrom(locals, text, timestamp, i) ==
    IF i > Len(TestLabels) THEN <<>>
    ELSE (IF MeetsThreshold(locals[i].confidence)
          THEN <<TestEvent(TestLabels[i], locals[i].confidence, text, timestamp)>>
          ELSE <<>>) \o DetectedFrom(locals, text, timestamp, i + 1)

_analyze_text_for_tests(text, timestamp) ==
    DetectedFrom(AnalyzeLocals(text), text, timestamp, 1)

(***************************************************************************)
(* Demeanor analyzer: _analyze_tone                                        *)
(***************************************************************************)

ExcerptLen == 200

Flag(flag_type, timestamp, text, severity, description) ==
    [flag_type          |-> flag_type,
     timestamp          |-> timestamp,
     transcript_excerpt |-> Prefix(text, ExcerptLen),
     severity           |-> severity,
     description        |-> description]

RECURSIVE NegativeToneFlags_FirstOnly(_, _, _, _)
\* mutant: the loop stops at the first indicator found
NegativeToneFlags_FirstOnly(text, text_lower, timestamp, i) ==
    IF i > Len(NEGATIVE_TONE_INDICATORS) THEN <<>>
    ELSE IF Contains(NEGATIVE_TONE_INDICATORS[i], text_lower)
         THEN <<Flag("negative_tone", timestamp, text, "high",
                     "Negative language detected: \"" \o
                         NEGATIVE_TONE_INDICATORS[i] \o "\"")>>
         ELSE NegativeToneFlags_FirstOnly(text, text_lower, timestamp, i + 1)

RECURSIVE NegativeToneFlags(_, _, _, _)
\* the loop over NEGATIVE_TONE_INDICATORS (lines 320-328)
NegativeToneFlags(text, text_lower, timestamp, i) ==
    IF i > Len(NEGATIVE_TONE_INDICATORS) THEN <<>>
    ELSE (IF Contains(NEGATIVE_TONE_INDICATORS[i], text_lower)
          THEN <<Flag("negative_tone", timestamp, text, "high",
                      "Negative language detected: \"" \o
                          NEGATIVE_TONE_INDICATORS[i] \o "\"")>>
          ELSE <<>>) \o NegativeToneFlags(text, text_lower, timestamp, i + 1)

RECURSIVE PatternFlags(_, _, _, _, _, _, _, _)
\* one flag per pattern of the list that re.search finds (lines 331-350)
PatternFlags(patterns, flag_type, severity, description, text, text_lower, timestamp, i) ==
    IF i > Len(patterns) THEN <<>>
    ELSE (IF Search(patterns[i], text_lower)
          THEN <<Flag(flag_type, timestamp, text, severity, description)>>
          ELSE <<>>) \o PatternFlags(patterns, flag_type, severity, description,
                                     text, text_lower, timestamp, i + 1)

\* mutant: the aggressive patterns scanned before the other two lists
_analyze_tone_AggressiveFirst(text, timestamp) ==
    LET text_lower == Lower(text)
    IN  PatternFlags(INTERRUPTION_PATTERNS, "aggressive", "high",
                     "Aggressive or controlling language detected", text,
                     text_lower, timestamp, 1)
        \o NegativeToneFlags(text, text_lower, timestamp, 1)
        \o PatternFlags(DISMISSIVE_PATTERNS, "dismissive", "medium",
                        "Dismissive language detected", text, text_lower,
                        timestamp, 1)

\* the three loops of lines 320-350, in their order
_analyze_tone(text, timestamp) ==
    LET text_lower == Lower(text)
    IN  NegativeToneFlags(text, text_lower, timestamp, 1)
        \o PatternFlags(DISMISSIVE_PATTERNS, "dismissive", "medium",
                        "Dismissive language detected", text, text_lower,
                        timestamp, 1)
        \o PatternFlags(INTERRUPTION_PATTERNS, "aggressive", "high",
                        "Aggressive or controlling language detected", text,
                        text_lower, timestamp, 1)

(***************************************************************************)
(* Transcripts: the input of process_transcript_for_cme_analysis, in the   *)
(* shape of the speech-to-text output (results.items and                   *)
(* results.speaker_labels.segments; times are numerals).                   *)
(***************************************************************************)

Pron(t, w) ==
    [type |-> "pronunciation", start_time |-> t, alternatives |-> <<[content |-> w]>>]

Punct(w) == [type |-> "punctuation", alternatives |-> <<[content |-> w]>>]

Segment(speaker, t1, t2) ==
    [speaker_label |-> speaker, start_time |-> t1, end_time |-> t2]

Transcript(items, segments) ==
    [results |-> [items |-> items, speaker_labels |-> [segments |-> segments]]]

\* the default of examiner_speaker_label, and another speaker
EXAMINER == "speaker_0"
Speakers == {EXAMINER, "speaker_1"}

MaxItems == 3
MaxWords == 3
MaxSegs  == 4

\* the longest transcript for which a later call, or the two analyses side by
\* side, are followed
RerunSegs == MaxSegs - 1

SeqsUpTo(S, n) == UNION {[1..k -> S] : k \in 0..n}

\* Window inputs: one examiner segment with any window over TimeStrs, and up
\* to MaxItems items, the k-th a punctuation mark or the k-th slot word
\* spoken at any time of TimeStrs.
TimeStrs == {"0", "1", "2"}
SlotWords == <<"rom", "test", "back", "walk", "hip">>
SlotWord(k) == IF k <= Len(SlotWords) THEN SlotWords[k] ELSE "w" \o Str(k)
SlotItems(k) == {Punct(",")} \cup {Pron(t, SlotWord(k)) : t \in TimeStrs}

RECURSIVE SlotSeqs(_)
\* the item lists of at most n items, the k-th taken from SlotItems(k)
SlotSeqs(n) ==
    IF n = 0 THEN {<<>>}
    ELSE LET shorter == SlotSeqs(n - 1)
         IN  shorter \cup {Append(its, it) : its \in {x \in shorter : Len(x) = n - 1},
                                              it \in SlotItems(n)}

WindowInputs ==
    {Transcript(items, <<Segment(EXAMINER, t1, t2)>>) :
        items \in SlotSeqs(MaxItems), t1 \in TimeStrs, t2 \in TimeStrs}

\* Utterance inputs: one segment of either speaker holding up to MaxWords
\* items drawn from a vocabulary of words and short phrases.
TestChunks == {"Let's", "straight leg raise", "rom", "test", "heel to toe", "back"}
ToneChunks == {"That's ridiculous,", "you're lying", "shut up", "not important"}

UtteranceInputs(chunks) ==
    {Transcript([k \in DOMAIN ws |-> Pron("0", ws[k])], <<Segment(sp, "0", "1")>>) :
        ws \in SeqsUpTo(chunks, MaxWords), sp \in Speakers}

\* Dialogue inputs: up to MaxSegs segments, the k-th spoken by either speaker
\* at time k - 1 and holding one item.
TurnTexts == {"ok", "shut up"}

DialogueInputs ==
    {Transcript([k \in DOMAIN turns |-> Pron(Str(k - 1), turns[k][2])],
                [k \in DOMAIN turns |-> Segment(turns[k][1], Str(k - 1), Str(k - 1))]) :
        turns \in SeqsUpTo(Speakers \X TurnTexts, MaxSegs)}

\* Fault inputs: up to MaxSegs - 1 examiner segments, the k-th at time k with
\* one item, each of one kind: well-formed; a start time that is no number;
\* no start time; an item with an empty alternatives list; no word at all.
FaultText == "shut up straight leg raise"
SegmentKinds == {"good", "bad_time", "no_start", "no_alternatives", "no_text"}

KindSegment(kind, k) ==
    CASE kind = "bad_time" -> Segment(EXAMINER, "n/a", Str(k))
      [] kind = "no_start" -> [speaker_label |-> EXAMINER, end_time |-> Str(k)]
      [] OTHER             -> Segment(EXAMINER, Str(k), Str(k))

KindItem(kind, k) ==
    CASE kind = "no_alternatives" ->
             [type |-> "pronunciation", start_time |-> Str(k), alternatives |-> <<>>]
      [] kind = "no_text" -> Punct(".")
      [] OTHER            -> Pron(Str(k), FaultText)

FaultInputs ==
    {Transcript([k \in DOMAIN kinds |-> KindItem(kinds[k], k)],
                [k \in DOMAIN kinds |-> KindSegment(kinds[k], k)]) :
        kinds \in SeqsUpTo(SegmentKinds, MaxSegs - 1)}

\* Long inputs: one segment of either speaker at time 2 whose single item is
\* a declaration repeated LongReps times, more than MatchedTextLen
\* characters in all.
LongReps == 11
LongPhrase == "Straight Leg Raise, "

RECURSIVE Repeat(_, _)
Repeat(s, n) == IF n = 0 THEN "" ELSE s \o Repeat(s, n - 1)

LongInputs ==
    {Transcript(<<Pron("2", Repeat(LongPhrase, LongReps))>>, <<Segment(sp, "2", "2")>>) :
        sp \in Speakers}

\* Keyword inputs: one examiner segment at time 1 that opens with a
\* declaration phrase or not and goes on with all five keywords of 'spine'
\* or with four of them, no pattern of the category matching.
KeywordOpenings == {"Let's", "then"}
KeywordBodies == {"spinal vertebrae back spine", "spinal vertebrae back"}

KeywordInputs ==
    {Transcript(<<Pron("1", opening), Pron("1", body)>>, <<Segment(EXAMINER, "1", "1")>>) :
        opening \in KeywordOpenings, body \in KeywordBodies}

SentimentSegs == 10
SentimentChars == 5000

\* Sentiment inputs: SentimentSegs + 2 segments, the k-th at time k with one
\* item, the second spoken by the other speaker and the rest by the examiner
\* (one examiner segment more than the sentiment sample takes).  The
\* segments hold either a short word or a filler of SentimentReps phrases,
\* more than SentimentChars characters over the sample; the last segment
\* holds a turn text.
SentimentReps == 48
FillerPhrase == "Okay then, "

SentimentInputs ==
    {Transcript([k \in 1..(SentimentSegs + 2) |->
                    Pron(Str(k), IF k = SentimentSegs + 2 THEN last ELSE body)],
                [k \in 1..(SentimentSegs + 2) |->
                    Segment(IF k = 2 THEN "speaker_1" ELSE EXAMINER, Str(k), Str(k))]) :
        body \in {"ok", Repeat(FillerPhrase, SentimentReps)}, last \in TurnTexts}

\* Unreadable inputs: a transcript that is not a mapping, and one without
\* results
UnreadableInputs == {NotAMapping, EmptyDict}

TranscriptInputs ==
    WindowInputs \cup UtteranceInputs(TestChunks) \cup UtteranceInputs(ToneChunks)
        \cup DialogueInputs \cup FaultInputs \cup LongInputs \cup KeywordInputs
        \cup SentimentInputs
        \cup UnreadableInputs

(***************************************************************************)
(* The sentiment oracle (comprehend_client.detect_sentiment): scores in    *)
(* tenths that sum to 1, the label the polarity of the highest score; or   *)
(* the call raises.                                                        *)
(***************************************************************************)

Response(label, pos, neg, neu, mix) ==
    [Sentiment |-> label,
     SentimentScore |-> [Positive |-> pos, Negative |-> neg, Neutral |-> neu,
                         Mixed |-> mix]]

OracleResponses ==
    {Response("NEGATIVE", 2, 7, 1, 0), Response("NEGATIVE", 3, 6, 1, 0),
     Response("NEUTRAL", 1, 1, 8, 0)}

(***************************************************************************)
(* State                                                                   *)
(***************************************************************************)

VARIABLES
    transcript,         \* transcript_data
    pc,                 \* where process_transcript_for_cme_analysis stands
    dt_i,               \* detect_declared_tests: the next segment of its loop
    declared_tests,     \* detect_declared_tests: declared_tests
    dt_locals,          \* detect_declared_tests: the locals of the last iteration
    dm_i,               \* analyze_examiner_demeanor: the next segment of its loop
    consecutive_count,  \* analyze_examiner_demeanor: consecutive_count
    last_speaker,       \* analyze_examiner_demeanor: last_speaker
    demeanor_flags,     \* analyze_examiner_demeanor: demeanor_flags
    dm_locals,          \* analyze_examiner_demeanor: the locals of the last iteration
    comprehend_calls,   \* the calls made to the sentiment oracle, with their outcome
    errors,             \* the functions whose except clause called logger.error
    result,             \* what process_transcript_for_cme_analysis returned
    previous,           \* what an earlier call in the same process returned
    threads,            \* the two analyses run side by side: where each stands
    steps_table,        \* the table cme-declared-steps, in scan order
    actions_table,      \* the table cme-observed-actions, in scan order
    report,             \* what CMEReportGenerator.generate_report built
    declared_test,      \* process_video_for_cme_test: declared_test
    video_pc,           \* where process_video_for_cme_test stands
    segment_key,        \* process_video_for_cme_test: segment_key
    rekognition_jobs,   \* the jobs started at the video analysis service
    motion_analysis,    \* analyze_video_segment: motion_analysis
    pose_analysis,      \* analyze_video_segment: pose_analysis
    comparison,         \* analyze_video_segment: comparison
    video_result,       \* what process_video_for_cme_test returned
    sessions_table,     \* the table cme-sessions: session_id -> item
    consent_table,      \* the table cme-consents, in the order of the puts
    transcription_jobs, \* the jobs started at the transcription service
    served,             \* the number of requests the handler has served
    request,            \* the request the handler served last
    api_response        \* the response it gave

\* the state of the transcript analysis, and the state of the report generator
nlp_vars ==
    <<transcript, pc, dt_i, declared_tests, dt_locals, dm_i, consecutive_count,
      last_speaker, demeanor_flags, dm_locals, comprehend_calls, errors, result,
      previous, threads>>
report_vars == <<steps_table, actions_table, report>>

video_vars ==
    <<declared_test, video_pc, segment_key, rekognition_jobs, motion_analysis,
      pose_analysis, comparison, video_result>>

handler_vars ==
    <<sessions_table, consent_table, transcription_jobs, served, request,
      api_response>>

\* the state of the components other than the transcript analysis
other_vars == <<report_vars, video_vars, handler_vars>>

\* no video analysis is running
VideoIdle ==
    /\ declared_test = EmptyDict
    /\ video_pc = "idle"
    /\ segment_key = None
    /\ rekognition_jobs = <<>>
    /\ motion_analysis = EmptyDict
    /\ pose_analysis = EmptyDict
    /\ comparison = EmptyDict
    /\ video_result = EmptyDict

\* no transcript analysis is running
NlpIdle ==
    /\ transcript = EmptyDict
    /\ pc = "idle"
    /\ dt_i = 1
    /\ declared_tests = <<>>
    /\ dt_locals = EmptyDict
    /\ dm_i = 1
    /\ consecutive_count = 0
    /\ last_speaker = None
    /\ demeanor_flags = <<>>
    /\ dm_locals = EmptyDict
    /\ comprehend_calls = <<>>
    /\ errors = <<>>
    /\ result = EmptyDict
    /\ previous = EmptyDict
    /\ threads = EmptyDict

\* no report is being generated
ReportIdle ==
    /\ steps_table = <<>>
    /\ actions_table = <<>>
    /\ report = EmptyDict

\* the API handler has served no request and its tables are empty
HandlerIdle ==
    /\ sessions_table = <<>>
    /\ consent_table = <<>>
    /\ transcription_jobs = <<>>
    /\ served = 0
    /\ request = EmptyDict
    /\ api_response = EmptyDict

vars == <<nlp_vars, other_vars>>

\* transcript.get('results', {}) ... of lines 150-153 and 261-264
ItemsOf(tr) == Get(Get(tr, "results", EmptyDict), "items", <<>>)
SegmentsOf(tr) ==
    Get(Get(Get(tr, "results", EmptyDict), "speaker_labels", EmptyDict),
        "segments", <<>>)

\* the session of the first call, and the session of a later call
SESSION_ID == "session-1"
LATER_SESSION_ID == "session-2"

Init ==
    /\ transcript \in TranscriptInputs
    /\ pc = "detect"
    /\ dt_i = 1
    /\ declared_tests = <<>>
    /\ dt_locals = EmptyDict
    /\ dm_i = 1
    /\ consecutive_count = 0
    /\ last_speaker = None
    /\ demeanor_flags = <<>>
    /\ dm_locals = EmptyDict
    /\ comprehend_calls = <<>>
    /\ errors = <<>>
    /\ result = EmptyDict
    /\ previous = EmptyDict
    /\ threads = EmptyDict
    /\ steps_table = <<>>
    /\ actions_table = <<>>
    /\ report = EmptyDict
    /\ VideoIdle
    /\ HandlerIdle

(***************************************************************************)
(* detect_declared_tests                                                   *)
(***************************************************************************)

RECURSIVE TagTests(_, _, _)
\* the loop of lines 171-174: each detected test gets the segment's speaker
\* and text
TagTests(detected_tests, speaker, segment_text) ==
    IF detected_tests = <<>> THEN <<>>
    ELSE <<[label           |-> Head(detected_tests).label,
            timestamp       |-> Head(detected_tests).timestamp,
            confidence      |-> Head(detected_tests).confidence,
            matched_text    |-> Head(detected_tests).matched_text,
            speaker         |-> speaker,
            transcript_text |-> segment_text]>>
         \o TagTests(Tail(detected_tests), speaker, segment_text)

\* mutant: detect_declared_tests keeps its speaker in the variable
\* analyze_examiner_demeanor reads as last_speaker
DetectKeeps_Overwrites(last) == "unknown"

\* detect_declared_tests assigns only its own locals and declared_tests
\* (lines 146-174): last_speaker, a local of analyze_examiner_demeanor, is
\* what it was
DetectKeeps(last) == last

\* one iteration of the loop over segments (lines 156-174)
DetectIteration ==
    /\ IsMapping(transcript)
    /\ dt_i <= Len(SegmentsOf(transcript))
    /\ ~TextRaises(SegmentsOf(transcript)[dt_i], ItemsOf(transcript))
    /\ LET segment      == SegmentsOf(transcript)[dt_i]
           speaker      == Get(segment, "speaker_label", "unknown")
           start_time   == FloatField(segment, "start_time")
           segment_text == _get_segment_text(segment, ItemsOf(transcript))
           detected_tests == _analyze_text_for_tests(segment_text, start_time)
       IN  /\ declared_tests' = declared_tests \o
                 TagTests(detected_tests, speaker, segment_text)
           /\ dt_locals' = [segment_text   |-> segment_text,
                            speaker        |-> speaker,
                            start_time     |-> start_time,
                            detected_tests |-> detected_tests,
                            categories     |-> AnalyzeLocals(segment_text)]
    /\ dt_i' = dt_i + 1
    /\ last_speaker' = DetectKeeps(last_speaker)
    /\ UNCHANGED <<transcript, dm_i, consecutive_count,
                   demeanor_flags, dm_locals, comprehend_calls, result, errors>>
    /\ UNCHANGED <<previous, other_vars>>

\* the iteration, in process_transcript_for_cme_analysis (line 427)
DetectStep ==
    /\ pc = "detect"
    /\ DetectIteration
    /\ UNCHANGED pc
    /\ UNCHANGED threads

\* the loop is over: return declared_tests (line 177); the caller goes on to
\* analyze_examiner_demeanor (line 430)
DetectLoopEnds ==
    /\ IsMapping(transcript)
    /\ dt_i > Len(SegmentsOf(transcript))
    /\ UNCHANGED <<transcript, dt_i, declared_tests, dt_locals, dm_i,
                   consecutive_count, last_speaker, demeanor_flags, dm_locals,
                   comprehend_calls, result, errors>>
    /\ UNCHANGED <<previous, other_vars>>

\* detect_declared_tests returns (line 427): analyze_examiner_demeanor is next
DetectReturn ==
    /\ pc = "detect"
    /\ DetectLoopEnds
    /\ pc' = "demeanor"
    /\ UNCHANGED threads

\* an exception inside the try block: transcript.get on a value that is not
\* a mapping (line 150), or float() or _get_segment_text on the segment of
\* this iteration (lines 162-166).  The except clause logs and returns []
\* (lines 179-181); the caller goes on to analyze_examiner_demeanor
DetectExcept ==
    /\ \/ ~IsMapping(transcript)
       \/ /\ dt_i <= Len(SegmentsOf(transcript))
          /\ TextRaises(SegmentsOf(transcript)[dt_i], ItemsOf(transcript))
    /\ declared_tests' = <<>>
    /\ errors' = Append(errors, "detect_declared_tests")
    /\ UNCHANGED <<transcript, dt_i, dt_locals, dm_i, consecutive_count,
                   last_speaker, demeanor_flags, dm_locals, comprehend_calls,
                   result>>
    /\ UNCHANGED <<previous, other_vars>>

\* the except clause of detect_declared_tests, in the call of line 427
DetectRaises ==
    /\ pc = "detect"
    /\ DetectExcept
    /\ pc' = "demeanor"
    /\ UNCHANGED threads

(***************************************************************************)
(* analyze_examiner_demeanor                                               *)
(***************************************************************************)

\* mutant: the description names consecutive_count, not consecutive_count + 1
InterruptionFlag_OffByOne(count, start_time, segment_text) ==
    Flag("interruption", start_time, segment_text, "medium",
         "Examiner spoke " \o Str(count) \o " times consecutively")

\* the flag of lines 282-288
InterruptionFlag(count, start_time, segment_text) ==
    Flag("interruption", start_time, segment_text, "medium",
         "Examiner spoke " \o Str(count + 1) \o " times consecutively")

\* consecutive_count after lines 278-290, for an examiner segment
NextCount(count, last) == IF last = EXAMINER THEN count + 1 ELSE 0

\* mutant: the flag raised from the second consecutive utterance on
IsInterruption_Early(count, last) == last = EXAMINER /\ count >= 1

\* if consecutive_count >= 2, inside the branch last_speaker == examiner
IsInterruption(count, last) == last = EXAMINER /\ count >= 2

\* mutant: the tone scan moved out of the examiner branch
StepFlags_ToneForAll(speaker, count, last, start_time, segment_text, flags) ==
    (IF speaker = EXAMINER /\ IsInterruption(count, last)
     THEN <<InterruptionFlag(count, start_time, segment_text)>> ELSE <<>>)
    \o flags

\* what one iteration appends to demeanor_flags: for an examiner segment the
\* interruption flag, if any, then the flags of _analyze_tone (lines 278-294)
StepFlags(speaker, count, last, start_time, segment_text, flags) ==
    IF speaker = EXAMINER
    THEN (IF IsInterruption(count, last)
          THEN <<InterruptionFlag(count, start_time, segment_text)>> ELSE <<>>)
         \o flags
    ELSE <<>>

\* one iteration of the loop over segments (lines 272-296)
DemeanorIteration ==
    /\ IsMapping(transcript)
    /\ dm_i <= Len(SegmentsOf(transcript))
    /\ ~TextRaises(SegmentsOf(transcript)[dm_i], ItemsOf(transcript))
    /\ LET segment      == SegmentsOf(transcript)[dm_i]
           speaker      == Get(segment, "speaker_label", None)
           start_time   == FloatField(segment, "start_time")
           segment_text == _get_segment_text(segment, ItemsOf(transcript))
           count        == NextCount(consecutive_count, last_speaker)
           flags        == _analyze_tone(segment_text, start_time)
       IN  /\ consecutive_count' = IF speaker = EXAMINER THEN count
                                   ELSE consecutive_count
           /\ demeanor_flags' = demeanor_flags \o
                 StepFlags(speaker, count, last_speaker, start_time,
                           segment_text, flags)
           /\ dm_locals' = [speaker      |-> speaker,
                            start_time   |-> start_time,
                            segment_text |-> segment_text,
                            flags        |-> IF speaker = EXAMINER THEN flags
                                             ELSE Get(dm_locals, "flags", <<>>)]
           /\ last_speaker' = speaker
    /\ dm_i' = dm_i + 1
    /\ UNCHANGED <<transcript, dt_i, declared_tests, dt_locals,
                   comprehend_calls, result, errors>>
    /\ UNCHANGED <<previous, other_vars>>

\* the iteration, in process_transcript_for_cme_analysis (line 430)
DemeanorStep ==
    /\ pc = "demeanor"
    /\ DemeanorIteration
    /\ UNCHANGED pc
    /\ UNCHANGED threads

\* an exception inside the try block: transcript.get on a value that is not
\* a mapping (line 261), or float() or _get_segment_text on the segment of
\* this iteration (lines 274-275).  The except clause logs and returns []
\* (lines 310-312)
DemeanorExcept ==
    /\ \/ ~IsMapping(transcript)
       \/ /\ dm_i <= Len(SegmentsOf(transcript))
          /\ TextRaises(SegmentsOf(transcript)[dm_i], ItemsOf(transcript))
    /\ demeanor_flags' = <<>>
    /\ errors' = Append(errors, "analyze_examiner_demeanor")
    /\ UNCHANGED <<transcript, dt_i, declared_tests, dt_locals, dm_i,
                   consecutive_count, last_speaker, dm_locals, comprehend_calls,
                   result>>
    /\ UNCHANGED <<previous, other_vars>>

\* the except clause of analyze_examiner_demeanor, in the call of line 430
DemeanorRaises ==
    /\ pc = "demeanor"
    /\ DemeanorExcept
    /\ pc' = "return"
    /\ UNCHANGED threads

\* examiner_segments (line 266)
ExaminerSegments(segments) ==
    SelectSeq(segments, LAMBDA sg : Get(sg, "speaker_label", None) = EXAMINER)

\* mutant: the sample joined from every examiner segment
ExaminerText_All(tr) ==
    LET all == ExaminerSegments(SegmentsOf(tr))
    IN  Join([k \in DOMAIN all |-> _get_segment_text(all[k], ItemsOf(tr))])

\* examiner_text (lines 299-301)
ExaminerText(tr) ==
    LET first == SubSeq(ExaminerSegments(SegmentsOf(tr)), 1,
                        MinOf(SentimentSegs, Len(ExaminerSegments(SegmentsOf(tr)))))
    IN  Join([k \in DOMAIN first |-> _get_segment_text(first[k], ItemsOf(tr))])

\* f'{score:.2f}' for a score in tenths
Fmt2(tenths) == IF tenths >= 10 THEN "1.00" ELSE "0." \o Str(tenths) \o "0"

\* mutant: >= 0.6 in place of > 0.6
SentimentFlags_AtLeast(response, text_sample, segments) ==
    IF /\ Get(response, "Sentiment", None) = "NEGATIVE"
       /\ Get(Get(response, "SentimentScore", EmptyDict), "Negative", 0) >= 6
    THEN <<[flag_type          |-> "negative_sentiment",
            timestamp          |-> IF segments # <<>>
                                   THEN FloatField(segments[1], "start_time") ELSE 0,
            transcript_excerpt |-> Prefix(text_sample, ExcerptLen),
            severity           |-> "medium",
            description        |-> "Overall negative sentiment detected (score: "
                                     \o Fmt2(response.SentimentScore.Negative) \o ")",
            sentiment_scores   |-> response.SentimentScore]>>
    ELSE <<>>

\* the flags _analyze_sentiment_comprehend returns for a response (lines 371-383)
SentimentFlags(response, text_sample, segments) ==
    IF /\ Get(response, "Sentiment", None) = "NEGATIVE"
       /\ Get(Get(response, "SentimentScore", EmptyDict), "Negative", 0) > 6
    THEN <<[flag_type          |-> "negative_sentiment",
            timestamp          |-> IF segments # <<>>
                                   THEN FloatField(segments[1], "start_time") ELSE 0,
            transcript_excerpt |-> Prefix(text_sample, ExcerptLen),
            severity           |-> "medium",
            description        |-> "Overall negative sentiment detected (score: "
                                     \o Fmt2(response.SentimentScore.Negative) \o ")",
            sentiment_scores   |-> response.SentimentScore]>>
    ELSE <<>>

\* after the loop, examiner_text is not empty: the oracle is called and
\* answers (lines 303-308 and 362-388)
OracleAnswers ==
    /\ IsMapping(transcript)
    /\ dm_i > Len(SegmentsOf(transcript))
    /\ ExaminerText(transcript) # ""
    /\ \E response \in OracleResponses :
          LET text_sample == Prefix(ExaminerText(transcript), SentimentChars)
          IN  /\ demeanor_flags' = demeanor_flags \o
                    SentimentFlags(response, text_sample,
                                   ExaminerSegments(SegmentsOf(transcript)))
              /\ comprehend_calls' = Append(comprehend_calls,
                    [Text |-> text_sample, raised |-> FALSE, response |-> response])
    /\ UNCHANGED <<transcript, dt_i, declared_tests, dt_locals, dm_i,
                   consecutive_count, last_speaker, dm_locals, result, errors>>
    /\ UNCHANGED <<previous, other_vars>>

\* the oracle answers, in the call of line 430
SentimentAnswer ==
    /\ pc = "demeanor"
    /\ OracleAnswers
    /\ pc' = "return"
    /\ UNCHANGED threads

\* mutant: the exception leaves _analyze_sentiment_comprehend and reaches the
\* except clause of analyze_examiner_demeanor, which returns []
ExtendOnRaise_Abort(flags) == <<>>

\* demeanor_flags.extend(sentiment_flags) (line 305) when the oracle raised:
\* the except clause of line 385 logs and line 388 returns flags, still []
ExtendOnRaise(flags) == flags \o <<>>

\* the oracle call raises
OracleRaises ==
    /\ IsMapping(transcript)
    /\ dm_i > Len(SegmentsOf(transcript))
    /\ ExaminerText(transcript) # ""
    /\ comprehend_calls' = Append(comprehend_calls,
          [Text |-> Prefix(ExaminerText(transcript), SentimentChars),
           raised |-> TRUE])
    /\ demeanor_flags' = ExtendOnRaise(demeanor_flags)
    /\ errors' = Append(errors, "_analyze_sentiment_comprehend")
    /\ UNCHANGED <<transcript, dt_i, declared_tests, dt_locals, dm_i,
                   consecutive_count, last_speaker, dm_locals, result>>
    /\ UNCHANGED <<previous, other_vars>>

\* the oracle raises, in the call of line 430
SentimentRaises ==
    /\ pc = "demeanor"
    /\ OracleRaises
    /\ pc' = "return"
    /\ UNCHANGED threads

\* examiner_text is empty: no oracle call (line 303)
NoOracleCall ==
    /\ IsMapping(transcript)
    /\ dm_i > Len(SegmentsOf(transcript))
    /\ ExaminerText(transcript) = ""
    /\ UNCHANGED <<transcript, dt_i, declared_tests, dt_locals, dm_i,
                   consecutive_count, last_speaker, demeanor_flags, dm_locals,
                   comprehend_calls, result, errors>>
    /\ UNCHANGED <<previous, other_vars>>

\* no oracle call, in the call of line 430
SentimentSkipped ==
    /\ pc = "demeanor"
    /\ NoOracleCall
    /\ pc' = "return"
    /\ UNCHANGED threads

(***************************************************************************)
(* process_transcript_for_cme_analysis                                     *)
(***************************************************************************)

\* the dict of lines 432-438 (processing_timestamp, the wall clock, left out)
ProcessReturn ==
    /\ pc = "return"
    /\ result' = [session_id     |-> IF previous = EmptyDict THEN SESSION_ID
                                     ELSE LATER_SESSION_ID,
                  declared_tests |-> declared_tests,
                  demeanor_flags |-> demeanor_flags,
                  status         |-> "completed"]
    /\ pc' = "done"
    /\ UNCHANGED <<transcript, dt_i, declared_tests, dt_locals, dm_i,
                   consecutive_count, last_speaker, demeanor_flags, dm_locals,
                   comprehend_calls, errors>>
    /\ UNCHANGED <<previous, threads, other_vars>>

\* the flags of a list that the sentiment oracle did not decide
WithoutSentiment(flags) ==
    SelectSeq(flags, LAMBDA f : f.flag_type # "negative_sentiment")

\* the transcripts for which a later call is followed: dialogues of more
\* than one segment
IsRerun(tr) == IsMapping(tr) /\ Len(SegmentsOf(tr)) \in 2..RerunSegs

\* mutant: last_speaker kept in the process between two calls
FreshSpeaker_Kept(last) == last

\* last_speaker = None (line 270), whatever an earlier call left
FreshSpeaker(last) == None

\* a later call in the same process (a warm container), for another session
\* with the same transcript: CMENLPProcessor() is built anew (line 424) and
\* the lists and counters are initialised by the two methods (lines 146,
\* 258, 269, 270).  The earlier result is kept aside, the sentiment flag
\* left out.
Reinvoke ==
    /\ pc = "done"
    /\ previous = EmptyDict
    /\ IsRerun(transcript)
    /\ previous' = [declared_tests |-> result.declared_tests,
                    demeanor_flags |-> WithoutSentiment(result.demeanor_flags)]
    /\ pc' = "detect"
    /\ dt_i' = 1
    /\ declared_tests' = <<>>
    /\ dt_locals' = EmptyDict
    /\ dm_i' = 1
    /\ consecutive_count' = 0
    /\ last_speaker' = FreshSpeaker(last_speaker)
    /\ demeanor_flags' = <<>>
    /\ dm_locals' = EmptyDict
    /\ comprehend_calls' = <<>>
    /\ errors' = <<>>
    /\ result' = EmptyDict
    /\ UNCHANGED <<transcript, threads>>
    /\ UNCHANGED other_vars

Next ==
    \/ DetectStep
    \/ DetectReturn
    \/ DetectRaises
    \/ DemeanorStep
    \/ DemeanorRaises
    \/ SentimentAnswer
    \/ SentimentRaises
    \/ SentimentSkipped
    \/ ProcessReturn
    \/ Reinvoke

Spec == Init /\ [][Next]_vars

(***************************************************************************)
(* The two analyses as functions of the transcript, and the two analyses   *)
(* run side by side over one transcript: every interleaving of their       *)
(* iterations, each analysis with its own locals and its own output list.  *)
(***************************************************************************)

\* whether the try block of either method raises for the transcript
AnyRaises(tr) ==
    \/ ~IsMapping(tr)
    \/ \E i \in DOMAIN SegmentsOf(tr) : TextRaises(SegmentsOf(tr)[i], ItemsOf(tr))

RECURSIVE DetectLoop(_, _)
\* declared_tests as the iterations i, i+1, ... of lines 156-174 build it
DetectLoop(tr, i) ==
    IF i > Len(SegmentsOf(tr)) THEN <<>>
    ELSE LET segment      == SegmentsOf(tr)[i]
             segment_text == _get_segment_text(segment, ItemsOf(tr))
         IN  TagTests(_analyze_text_for_tests(segment_text,
                                              FloatField(segment, "start_time")),
                      Get(segment, "speaker_label", "unknown"), segment_text)
             \o DetectLoop(tr, i + 1)

\* detect_declared_tests(transcript) (lines 135-181)
detect_declared_tests(tr) == IF AnyRaises(tr) THEN <<>> ELSE DetectLoop(tr, 1)

RECURSIVE DemeanorLoop(_, _, _, _)
\* demeanor_flags as the iterations i, i+1, ... of lines 272-296 build it
DemeanorLoop(tr, i, consecutive, last) ==
    IF i > Len(SegmentsOf(tr)) THEN <<>>
    ELSE LET segment      == SegmentsOf(tr)[i]
             speaker      == Get(segment, "speaker_label", None)
             start_time   == FloatField(segment, "start_time")
             segment_text == _get_segment_text(segment, ItemsOf(tr))
             count        == NextCount(consecutive, last)
         IN  StepFlags(speaker, count, last, start_time, segment_text,
                       _analyze_tone(segment_text, start_time))
             \o DemeanorLoop(tr, i + 1,
                             IF speaker = EXAMINER THEN count ELSE consecutive,
                             speaker)

\* analyze_examiner_demeanor(transcript) (lines 242-312), given the flags
\* _analyze_sentiment_comprehend returned
analyze_examiner_demeanor(tr, sentiment_flags) ==
    IF AnyRaises(tr) THEN <<>>
    ELSE DemeanorLoop(tr, 1, 0, None) \o sentiment_flags

\* the transcripts analysed side by side: the fault inputs of at most
\* RerunSegs segments, the dialogues of fewer, and the unreadable inputs
ConcurrentInputs ==
    {tr \in FaultInputs : Len(SegmentsOf(tr)) <= RerunSegs}
        \cup {tr \in DialogueInputs : Len(SegmentsOf(tr)) < RerunSegs}
        \cup UnreadableInputs

ConcurrentInit ==
    /\ transcript \in ConcurrentInputs
    /\ pc = "threads"
    /\ threads = [detect |-> "run", demeanor |-> "run", first |-> None]
    /\ dt_i = 1
    /\ declared_tests = <<>>
    /\ dt_locals = EmptyDict
    /\ dm_i = 1
    /\ consecutive_count = 0
    /\ last_speaker = None
    /\ demeanor_flags = <<>>
    /\ dm_locals = EmptyDict
    /\ comprehend_calls = <<>>
    /\ errors = <<>>
    /\ result = EmptyDict
    /\ previous = EmptyDict
    /\ steps_table = <<>>
    /\ actions_table = <<>>
    /\ report = EmptyDict
    /\ VideoIdle
    /\ HandlerIdle

\* the analysis named has returned; first is the one that returned first
Finish(th, name) ==
    [th EXCEPT ![name] = "done", !.first = IF th.first = None THEN name ELSE th.first]

\* an iteration of detect_declared_tests
CoDetectStep ==
    /\ pc = "threads"
    /\ threads.detect = "run"
    /\ DetectIteration
    /\ UNCHANGED threads
    /\ UNCHANGED pc

\* detect_declared_tests returns declared_tests
CoDetectReturn ==
    /\ pc = "threads"
    /\ threads.detect = "run"
    /\ DetectLoopEnds
    /\ threads' = Finish(threads, "detect")
    /\ UNCHANGED pc

\* detect_declared_tests returns [] from its except clause
CoDetectRaises ==
    /\ pc = "threads"
    /\ threads.detect = "run"
    /\ DetectExcept
    /\ threads' = Finish(threads, "detect")
    /\ UNCHANGED pc

\* an iteration of analyze_examiner_demeanor
CoDemeanorStep ==
    /\ pc = "threads"
    /\ threads.demeanor = "run"
    /\ DemeanorIteration
    /\ UNCHANGED threads
    /\ UNCHANGED pc

\* analyze_examiner_demeanor returns [] from its except clause
CoDemeanorRaises ==
    /\ pc = "threads"
    /\ threads.demeanor = "run"
    /\ DemeanorExcept
    /\ threads' = Finish(threads, "demeanor")
    /\ UNCHANGED pc

\* analyze_examiner_demeanor returns after the oracle answered
CoSentimentAnswer ==
    /\ pc = "threads"
    /\ threads.demeanor = "run"
    /\ OracleAnswers
    /\ threads' = Finish(threads, "demeanor")
    /\ UNCHANGED pc

\* analyze_examiner_demeanor returns after the oracle raised
CoSentimentRaises ==
    /\ pc = "threads"
    /\ threads.demeanor = "run"
    /\ OracleRaises
    /\ threads' = Finish(threads, "demeanor")
    /\ UNCHANGED pc

\* analyze_examiner_demeanor returns without an oracle call
CoSentimentSkipped ==
    /\ pc = "threads"
    /\ threads.demeanor = "run"
    /\ NoOracleCall
    /\ threads' = Finish(threads, "demeanor")
    /\ UNCHANGED pc

\* both analyses have returned: the dict of lines 432-438
CoReturn ==
    /\ pc = "threads"
    /\ threads.detect = "done" /\ threads.demeanor = "done"
    /\ result' = [session_id     |-> SESSION_ID,
                  declared_tests |-> declared_tests,
                  demeanor_flags |-> demeanor_flags,
                  status         |-> "completed"]
    /\ pc' = "done"
    /\ UNCHANGED <<transcript, dt_i, declared_tests, dt_locals, dm_i,
                   consecutive_count, last_speaker, demeanor_flags, dm_locals,
                   comprehend_calls, errors>>
    /\ UNCHANGED <<previous, threads, other_vars>>

ConcurrentNext ==
    \/ CoDetectStep
    \/ CoDetectReturn
    \/ CoDetectRaises
    \/ CoDemeanorStep
    \/ CoDemeanorRaises
    \/ CoSentimentAnswer
    \/ CoSentimentRaises
    \/ CoSentimentSkipped
    \/ CoReturn

ConcurrentSpec == ConcurrentInit /\ [][ConcurrentNext]_vars

(***************************************************************************)
(* Report generator (cme_report_generator.py).  The tables are sequences   *)
(* in the order a Scan reads them.  One Scan call returns one page: the    *)
(* table itself while it fits, else its first PageItems items; the code    *)
(* makes one call per table and reads no further page.                     *)
(***************************************************************************)

Sessions == {"session-1", "session-2"}

\* a declared step, as ExamModels.create_declared_step builds it
Step(step_id, session_id, timestamp, label) ==
    [declared_step_id |-> step_id, session_id |-> session_id,
     timestamp |-> timestamp, label |-> label]

\* the tables of declared steps the runs start from: two steps of session-1
\* and one of session-2, stored in two orders, neither the order of time
StepTables ==
    {<<Step("step_b", "session-1", "7", "straight_leg_raise"),
       Step("step_a", "session-1", "3", "lumbar_rom"),
       Step("step_c", "session-2", "5", "lumbar_rom")>>,
     <<Step("step_c", "session-2", "5", "lumbar_rom"),
       Step("step_b", "session-1", "7", "straight_leg_raise"),
       Step("step_a", "session-1", "3", "lumbar_rom")>>}

StepIds == {"step_a", "step_b", "step_c"}

\* an observed action, as ExamModels.create_observed_action builds it
Action(action_id, step_id, motion_present, pose_match) ==
    [observed_action_id |-> action_id, declared_step_id |-> step_id,
     motion_present |-> motion_present, pose_match |-> pose_match]

\* the verdicts of the vision collaborator
Verdicts ==
    {<<"performed", "full_match">>, <<"performed", "no_match">>,
     <<"brief", "partial">>, <<"not_observed", "no_match">>}

MaxActions == 3

\* the items of one page of a Scan
PageItems == MaxActions - 1

\* table.scan(): the items of the first page
Scan(table) == SubSeq(table, 1, MinOf(PageItems, Len(table)))

\* FilterExpression='session_id = :sid', applied to the page read
FilterSession(items, session_id) ==
    SelectSeq(items, LAMBDA item : Get(item, "session_id", None) = session_id)

RECURSIVE InsertByTimestamp(_, _)
\* x put into the sorted list after the items whose timestamp is not larger
InsertByTimestamp(sorted, x) ==
    IF sorted = <<>> THEN <<x>>
    ELSE IF FloatField(x, "timestamp") < FloatField(Head(sorted), "timestamp")
         THEN <<x>> \o sorted
         ELSE <<Head(sorted)>> \o InsertByTimestamp(Tail(sorted), x)

RECURSIVE SortedByTimestamp(_)
\* sorted(items, key=lambda x: float(x.get('timestamp', 0))): stable
SortedByTimestamp(items) ==
    IF items = <<>> THEN <<>>
    ELSE InsertByTimestamp(SortedByTimestamp(SubSeq(items, 1, Len(items) - 1)),
                           items[Len(items)])

RECURSIVE StepActions(_)
\* step_actions after the loop of lines 322-326: for each declared_step_id the
\* last action of the list that names it
StepActions(all_actions) ==
    IF all_actions = <<>> THEN EmptyDict
    ELSE LET action == all_actions[Len(all_actions)]
             earlier == StepActions(SubSeq(all_actions, 1, Len(all_actions) - 1))
             step_id == Get(action, "declared_step_id", "")
         IN  IF step_id = "" THEN earlier
             ELSE [k \in DOMAIN earlier \cup {step_id} |->
                      IF k = step_id THEN action ELSE earlier[k]]

\* _gather_session_data for a session that exists (lines 308-350)
GatherSessionData(session_id) ==
    [session        |-> [session_id |-> session_id],
     declared_steps |-> SortedByTimestamp(
                            FilterSession(Scan(steps_table), session_id)),
     step_actions   |-> StepActions(Scan(actions_table))]

\* s.replace('_', ' ').title() for the values of motion_present
Title(motion_present) ==
    CASE motion_present = "performed"    -> "Performed"
      [] motion_present = "brief"        -> "Brief"
      [] motion_present = "not_observed" -> "Not Observed"
      [] motion_present = "unknown"      -> "Unknown"
      [] OTHER                           -> motion_present

\* mutant: a brief motion not highlighted
IsDiscrepancy_NotObservedOnly(motion_present) == motion_present = "not_observed"

\* the discrepancy test of line 452
IsDiscrepancy(motion_present) == motion_present \in {"not_observed", "brief"}

\* one timeline item (lines 443-465): the locals action and motion_present,
\* the CSS class and the text after "Observed Action:"
TimelineItem(step, step_actions) ==
    LET action == Get(step_actions, step.declared_step_id, EmptyDict)
        motion_present == Get(action, "motion_present", "unknown")
    IN  [declared_step_id  |-> step.declared_step_id,
         label             |-> Get(step, "label", "Unknown Test"),
         action            |-> action,
         motion_present    |-> motion_present,
         discrepancy_class |-> IF IsDiscrepancy(motion_present)
                               THEN "discrepancy" ELSE "",
         observed_action   |-> Title(motion_present)]

\* the number of declared steps whose action has this motion_present
\* (lines 366-369)
CountMotion(declared_steps, step_actions, motion) ==
    Cardinality({k \in DOMAIN declared_steps :
        Get(Get(step_actions, declared_steps[k].declared_step_id, EmptyDict),
            "motion_present", None) = motion})

\* _generate_html_report: the statistics and the timeline
GenerateHtmlReport(data) ==
    [session_id          |-> data.session.session_id,
     total_tests         |-> Len(data.declared_steps),
     tests_performed     |-> CountMotion(data.declared_steps, data.step_actions,
                                         "performed"),
     tests_not_performed |-> CountMotion(data.declared_steps, data.step_actions,
                                         "not_observed"),
     timeline            |-> [k \in DOMAIN data.declared_steps |->
                                 TimelineItem(data.declared_steps[k],
                                              data.step_actions)]]

ReportInit ==
    /\ transcript = EmptyDict
    /\ pc = "report"
    /\ dt_i = 1
    /\ declared_tests = <<>>
    /\ dt_locals = EmptyDict
    /\ dm_i = 1
    /\ consecutive_count = 0
    /\ last_speaker = None
    /\ demeanor_flags = <<>>
    /\ dm_locals = EmptyDict
    /\ comprehend_calls = <<>>
    /\ errors = <<>>
    /\ result = EmptyDict
    /\ previous = EmptyDict
    /\ threads = EmptyDict
    /\ steps_table \in StepTables
    /\ actions_table = <<>>
    /\ report = EmptyDict
    /\ VideoIdle
    /\ HandlerIdle

\* the video pipeline stores a verdict for a declared step
StoreVerdict ==
    /\ report = EmptyDict
    /\ Len(actions_table) < MaxActions
    /\ \E step_id \in StepIds, verdict \in Verdicts :
          actions_table' = Append(actions_table,
              Action("action_" \o Str(Len(actions_table) + 1), step_id,
                     verdict[1], verdict[2]))
    /\ UNCHANGED <<steps_table, report>>
    /\ UNCHANGED <<nlp_vars, video_vars, handler_vars>>

\* generate_report(session_id) for a session of the sessions table
GenerateReport ==
    /\ report = EmptyDict
    /\ \E session_id \in Sessions :
          report' = GenerateHtmlReport(GatherSessionData(session_id))
    /\ UNCHANGED <<steps_table, actions_table>>
    /\ UNCHANGED <<nlp_vars, video_vars, handler_vars>>

\* generate_report for a session the sessions table does not hold
\* (lines 305-306 and 250-251)
ReportNotFound ==
    /\ report = EmptyDict
    /\ report' = [error |-> "Session not found or incomplete"]
    /\ UNCHANGED <<steps_table, actions_table>>
    /\ UNCHANGED <<nlp_vars, video_vars, handler_vars>>

ReportNext ==
    \/ StoreVerdict
    \/ GenerateReport
    \/ ReportNotFound

ReportSpec == ReportInit /\ [][ReportNext]_vars

(***************************************************************************)
(* Video processor (cme_video_processor.py): segment extraction, the two   *)
(* jobs of the video analysis service, and the comparison with the motion  *)
(* expectations of the test type.  Confidence scores are in hundredths.    *)
(***************************************************************************)

TEST_MOTION_EXPECTATIONS ==
    [lumbar_rom |->
        [expected_movements |-> <<"forward_bend", "backward_bend", "lateral_bend", "rotation">>,
         patient_motion_required |-> TRUE, examiner_touch |-> FALSE,
         description |-> "Patient should bend forward, backward, and side-to-side"],
     straight_leg_raise |->
        [expected_movements |-> <<"leg_raise", "hip_flexion">>,
         patient_motion_required |-> TRUE, examiner_touch |-> TRUE,
         description |-> "Examiner raises patient's leg while patient lies supine"],
     cervical_rom |->
        [expected_movements |-> <<"head_rotation", "head_flexion", "head_extension">>,
         patient_motion_required |-> TRUE, examiner_touch |-> FALSE,
         description |-> "Patient rotates and flexes neck in various directions"],
     gait |->
        [expected_movements |-> <<"walking", "heel_to_toe", "standing">>,
         patient_motion_required |-> TRUE, examiner_touch |-> FALSE,
         description |-> "Patient walks normally and performs heel-to-toe walking"],
     neurological |->
        [expected_movements |-> <<"limb_movement", "reflex_test">>,
         patient_motion_required |-> FALSE, examiner_touch |-> TRUE,
         description |-> "Examiner tests reflexes using reflex hammer"],
     palpation |->
        [expected_movements |-> <<"examiner_hand_movement">>,
         patient_motion_required |-> FALSE, examiner_touch |-> TRUE,
         description |-> "Examiner presses along spine or affected area"],
     spine |->
        [expected_movements |-> <<"examiner_hand_movement", "visual_inspection">>,
         patient_motion_required |-> FALSE, examiner_touch |-> TRUE,
         description |-> "Examiner inspects and palpates spine"]]

\* the dict a start call returns: the job in progress (lines 241-245 and
\* 267-271), or the error of the except clause (lines 247-249 and 273-275)
JobStarted(job_id, job_type) ==
    [job_id |-> job_id, status |-> "IN_PROGRESS", type |-> job_type]
StartFailed == [error |-> "rekognition"]

\* get_rekognition_results for a job of the type, by what the service
\* answers (lines 308-340); "raises" is the except clause
JobStatuses == {"SUCCEEDED", "IN_PROGRESS", "FAILED", "raises"}
get_rekognition_results(job_type, job_status) ==
    CASE job_status = "SUCCEEDED" ->
             [status |-> "COMPLETED", results |-> [JobStatus |-> job_status],
              job_type |-> job_type]
      [] job_status = "IN_PROGRESS" -> [status |-> "IN_PROGRESS", job_type |-> job_type]
      [] job_status = "FAILED" ->
             [status |-> "FAILED", error |-> "Unknown error", job_type |-> job_type]
      [] OTHER -> [error |-> "rekognition"]

\* mutant: the verdict given as soon as one of the two jobs has completed
_compare_with_expectations_EitherJob(motion, pose, expectations) ==
    LET completed == \/ Get(motion, "status", None) = "COMPLETED"
                     \/ Get(pose, "status", None) = "COMPLETED"
    IN  [motion_present          |-> IF completed THEN "performed" ELSE "unknown",
         pose_match              |-> IF completed THEN "full_match" ELSE "unknown",
         confidence_score        |-> IF completed THEN 75 ELSE 50,
         expected_movements      |-> Get(expectations, "expected_movements", <<>>),
         patient_motion_required |-> Get(expectations, "patient_motion_required", FALSE),
         examiner_touch_required |-> Get(expectations, "examiner_touch", FALSE),
         analysis_status         |-> IF Get(motion, "status", None) = "IN_PROGRESS"
                                     THEN "pending" ELSE "completed"]

\* _compare_with_expectations (lines 277-306)
_compare_with_expectations(motion, pose, expectations) ==
    LET completed == /\ Get(motion, "status", None) = "COMPLETED"
                     /\ Get(pose, "status", None) = "COMPLETED"
    IN  [motion_present          |-> IF completed THEN "performed" ELSE "unknown",
         pose_match              |-> IF completed THEN "full_match" ELSE "unknown",
         confidence_score        |-> IF completed THEN 75 ELSE 50,
         expected_movements      |-> Get(expectations, "expected_movements", <<>>),
         patient_motion_required |-> Get(expectations, "patient_motion_required", FALSE),
         examiner_touch_required |-> Get(expectations, "examiner_touch", FALSE),
         analysis_status         |-> IF Get(motion, "status", None) = "IN_PROGRESS"
                                     THEN "pending" ELSE "completed"]

\* how extract_video_segment ends: the segment uploaded (line 139), the
\* download or another call raising (lines 147-152), ffmpeg returning an
\* error (lines 127-129), or no ffmpeg and the fallback of lines 154-170
ExtractOutcomes == {"uploaded", "raises", "ffmpeg_error", "no_ffmpeg"}

\* output_s3_key (line 102) for the prefix of line 431 and duration 60.0
OutputKey(session_id, start_time) ==
    "cme-segments/" \o session_id \o "/segment_" \o Str(start_time) \o "_60.mp4"

\* extract_video_segment, by how it ends
extract_video_segment(session_id, start_time, outcome) ==
    IF outcome = "uploaded" THEN OutputKey(session_id, start_time) ELSE None

\* the declared tests handed to process_video_for_cme_test: a label of the
\* expectations table or another, a timestamp, and dicts without one of
\* the two or with a timestamp that is no number
VideoLabels == DOMAIN TEST_MOTION_EXPECTATIONS \cup {"cognitive"}
VideoTimes == {"0", "45"}
VideoTests ==
    {[label |-> l, timestamp |-> t] : l \in VideoLabels, t \in VideoTimes}
        \cup {[label |-> "gait"], [timestamp |-> "45"],
              [label |-> "gait", timestamp |-> "n/a"]}

VideoInit ==
    /\ declared_test \in VideoTests
    /\ video_pc = "start"
    /\ segment_key = None
    /\ rekognition_jobs = <<>>
    /\ motion_analysis = EmptyDict
    /\ pose_analysis = EmptyDict
    /\ comparison = EmptyDict
    /\ video_result = EmptyDict
    /\ NlpIdle
    /\ ReportIdle
    /\ HandlerIdle

\* float(declared_test.get('timestamp', 0)) raises (line 424): the call ends
\* with the exception
TimestampRaises ==
    /\ video_pc = "start"
    /\ FloatRaises(declared_test, "timestamp")
    /\ video_pc' = "raised"
    /\ UNCHANGED <<declared_test, segment_key, rekognition_jobs, motion_analysis,
                   pose_analysis, comparison, video_result>>
    /\ UNCHANGED <<nlp_vars, report_vars, handler_vars>>

\* Step 5: segment_key = processor.extract_video_segment(...) (lines 428-433)
ExtractSegment ==
    /\ video_pc = "start"
    /\ ~FloatRaises(declared_test, "timestamp")
    /\ \E outcome \in ExtractOutcomes :
          segment_key' = extract_video_segment(SESSION_ID,
                              FloatField(declared_test, "timestamp"), outcome)
    /\ video_pc' = "extracted"
    /\ UNCHANGED <<declared_test, rekognition_jobs, motion_analysis,
                   pose_analysis, comparison, video_result>>
    /\ UNCHANGED <<nlp_vars, report_vars, handler_vars>>

\* mutant: the analysis goes on without a segment
SegmentMissing_Never(key) == FALSE

\* if not segment_key (line 435)
SegmentMissing(key) == key = None \/ key = ""

\* the error result of lines 436-440
ExtractFailed ==
    /\ video_pc = "extracted"
    /\ SegmentMissing(segment_key)
    /\ video_result' = [error     |-> "Failed to extract video segment",
                        test_type |-> Get(declared_test, "label", "unknown"),
                        timestamp |-> FloatField(declared_test, "timestamp")]
    /\ video_pc' = "done"
    /\ UNCHANGED <<declared_test, segment_key, rekognition_jobs, motion_analysis,
                   pose_analysis, comparison>>
    /\ UNCHANGED <<nlp_vars, report_vars, handler_vars>>

\* the id of the next job of the service
NextJobId == "job-" \o Str(Len(rekognition_jobs) + 1)

\* _analyze_motion_rekognition (lines 221-249), called at line 192: the job
\* starts, or the call raises
StartMotion ==
    /\ video_pc = "extracted"
    /\ ~SegmentMissing(segment_key)
    /\ \/ /\ motion_analysis' = JobStarted(NextJobId, "motion_analysis")
          /\ rekognition_jobs' = Append(rekognition_jobs,
                [job_id |-> NextJobId, type |-> "motion_analysis", video |-> segment_key])
       \/ /\ motion_analysis' = StartFailed
          /\ UNCHANGED rekognition_jobs
    /\ video_pc' = "motion"
    /\ UNCHANGED <<declared_test, segment_key, pose_analysis, comparison,
                   video_result>>
    /\ UNCHANGED <<nlp_vars, report_vars, handler_vars>>

\* _detect_poses_rekognition (lines 251-275), called at line 195
StartPose ==
    /\ video_pc = "motion"
    /\ \/ /\ pose_analysis' = JobStarted(NextJobId, "pose_detection")
          /\ rekognition_jobs' = Append(rekognition_jobs,
                [job_id |-> NextJobId, type |-> "pose_detection", video |-> segment_key])
       \/ /\ pose_analysis' = StartFailed
          /\ UNCHANGED rekognition_jobs
    /\ video_pc' = "pose"
    /\ UNCHANGED <<declared_test, segment_key, motion_analysis, comparison,
                   video_result>>
    /\ UNCHANGED <<nlp_vars, report_vars, handler_vars>>

\* comparison = self._compare_with_expectations(...) (lines 198-202), with
\* the expectations of line 189
Compare ==
    /\ video_pc = "pose"
    /\ comparison' = _compare_with_expectations(motion_analysis, pose_analysis,
          Get(TEST_MOTION_EXPECTATIONS, Get(declared_test, "label", "unknown"),
              EmptyDict))
    /\ video_pc' = "compared"
    /\ UNCHANGED <<declared_test, segment_key, rekognition_jobs, motion_analysis,
                   pose_analysis, video_result>>
    /\ UNCHANGED <<nlp_vars, report_vars, handler_vars>>

\* analyze_video_segment returns (lines 204-211) and
\* process_video_for_cme_test returns (lines 445-452)
VideoReturn ==
    /\ video_pc = "compared"
    /\ LET test_type == Get(declared_test, "label", "unknown")
       IN  video_result' =
              [session_id  |-> SESSION_ID,
               test_type   |-> test_type,
               timestamp   |-> FloatField(declared_test, "timestamp"),
               segment_key |-> segment_key,
               analysis    |-> [segment_key     |-> segment_key,
                                test_type       |-> test_type,
                                motion_detected |-> motion_analysis,
                                poses_detected  |-> pose_analysis,
                                comparison      |-> comparison,
                                expectations    |->
                                    Get(TEST_MOTION_EXPECTATIONS, test_type, EmptyDict)],
               status      |-> "completed"]
    /\ video_pc' = "done"
    /\ UNCHANGED <<declared_test, segment_key, rekognition_jobs, motion_analysis,
                   pose_analysis, comparison>>
    /\ UNCHANGED <<nlp_vars, report_vars, handler_vars>>

VideoNext ==
    \/ TimestampRaises
    \/ ExtractSegment
    \/ ExtractFailed
    \/ StartMotion
    \/ StartPose
    \/ Compare
    \/ VideoReturn

VideoSpec == VideoInit /\ [][VideoNext]_vars

\* _compare_with_expectations on its own: any dict a start call or a poll
\* of the service returns for each of the two jobs, and the expectations of
\* any label
AnalysisInputs(job_type) ==
    {JobStarted("job-1", job_type), StartFailed}
        \cup {get_rekognition_results(job_type, st) : st \in JobStatuses}

CompareInit ==
    /\ declared_test \in {[label |-> l, timestamp |-> "0"] : l \in VideoLabels}
    /\ video_pc = "pose"
    /\ segment_key = OutputKey(SESSION_ID, 0)
    /\ rekognition_jobs = <<>>
    /\ motion_analysis \in AnalysisInputs("motion_analysis")
    /\ pose_analysis \in AnalysisInputs("pose_detection")
    /\ comparison = EmptyDict
    /\ video_result = EmptyDict
    /\ NlpIdle
    /\ ReportIdle
    /\ HandlerIdle

CompareNext == Compare

CompareSpec == CompareInit /\ [][CompareNext]_vars

(***************************************************************************)
(* The API handler (cme_handler.py).  A request is served in one step.     *)
(* The timestamps created_at and updated_at are left out of the items.     *)
(***************************************************************************)

MaxRequests == 4

S3_BUCKET == "eve-legal-documents"

STATE_RECORDING_RULES ==
    [FL |-> [video |-> TRUE, audio |-> TRUE, mode |-> "Full Record",
             rule |-> "Rule 1.360"],
     PA |-> [video |-> FALSE, audio |-> TRUE, mode |-> "Audio Only",
             rule |-> "Pennsylvania law"],
     CA |-> [video |-> TRUE, audio |-> TRUE, mode |-> "Full Record",
             rule |-> "CCP §2032.320"],
     TX |-> [video |-> FALSE, audio |-> FALSE, mode |-> "Ephemeral",
             rule |-> "Texas Civil Practice"],
     DEFAULT |-> [video |-> FALSE, audio |-> FALSE, mode |-> "Ephemeral",
                  rule |-> "Jurisdictional rules apply"]]

UpperChar(c) ==
    IF \E u \in DOMAIN UpperToLower : UpperToLower[u] = c
    THEN CHOOSE u \in DOMAIN UpperToLower : UpperToLower[u] = c
    ELSE c

RECURSIVE Upper(_)
\* s.upper()
Upper(s) == IF s = "" THEN "" ELSE UpperChar(Char(s, 1)) \o Upper(SubSeq(s, 2, Len(s)))

\* s.startswith(prefix)
StartsWith(s, prefix) == Len(prefix) <= Len(s) /\ SubSeq(s, 1, Len(prefix)) = prefix

\* the positions of the character c in s
Positions(s, c) == {i \in 1..Len(s) : Char(s, i) = c}

\* the largest and the smallest member of a non-empty set of numbers
Largest(S) == CHOOSE m \in S : \A n \in S : n <= m
Smallest(S) == CHOOSE m \in S : \A n \in S : m <= n

\* bool(v) of a string or None
Truthy(v) == v # None /\ v # ""

\* STATE_RECORDING_RULES.get(state.upper(), STATE_RECORDING_RULES['DEFAULT'])
RecordingRules(state) ==
    Get(STATE_RECORDING_RULES, Upper(state), STATE_RECORDING_RULES.DEFAULT)

\* CMEDataModel.create_exam_session, the uuid given
create_exam_session(session_id, patient_id, doctor_name, state) ==
    [session_id |-> session_id,
     patient_id |-> patient_id,
     doctor_name |-> doctor_name,
     state |-> Upper(state),
     mode |-> RecordingRules(state).mode,
     recording_allowed |-> RecordingRules(state),
     video_uri |-> "",
     transcript_uri |-> "",
     consent_hash |-> "",
     status |-> "created",
     processing_stage |-> "session_setup"]

\* CMEDataModel.create_consent_record, the uuid given
create_consent_record(consent_id, session_id, participant_role, signature, consent_text) ==
    [consent_id |-> consent_id,
     session_id |-> session_id,
     participant_role |-> participant_role,
     signature |-> signature,
     consent_text |-> consent_text,
     ip_address |-> ""]

create_response(status_code, body) == [statusCode |-> status_code, body |-> body]

\* Table.get_item(Key={'session_id': key}).get('Item')
get_item(table, key) == IF key \in DOMAIN table THEN table[key] ELSE None

\* the truth of that item: not session, lines 328 and 404
HasItem(table, key) == key \in DOMAIN table

\* Table.update_item(Key={'session_id': key}, UpdateExpression='SET ...'): the
\* attributes are set on the item, which is created when it does not exist
update_item(table, key, attrs) ==
    IF key \in DOMAIN table
    THEN [table EXCEPT ![key] = attrs @@ @]
    ELSE (key :> (attrs @@ [session_id |-> key])) @@ table

\* the uuids: the n-th session and the n-th consent record
SessionId(n) == "cme_" \o Str(n)
ConsentId(n) == "consent_" \o Str(n)

\* a session id no session was created with
UNKNOWN_ID == "cme_0"

\* the sessions handle_create_cme_session stored
CreatedIds == DOMAIN sessions_table \ {UNKNOWN_ID}

\* the session ids a client may name
AskedIds == DOMAIN sessions_table \cup {UNKNOWN_ID}

\* the calls of a service that may raise; None when none does
NoFault == None

Event(path, body) == [httpMethod |-> "POST", path |-> path, body |-> body]

\* one more request is served
Serve ==
    /\ served < MaxRequests
    /\ served' = served + 1

\* filename.split('.')[-1] if '.' in filename else 'mp4'
FileExtension(filename) ==
    IF Positions(filename, ".") = {} THEN "mp4"
    ELSE SubSeq(filename, Largest(Positions(filename, ".")) + 1, Len(filename))

\* the check of line 337
VideoRefused(is_video, recording_rules) ==
    is_video /\ ~Get(recording_rules, "video", FALSE)

\* the check of line 407
HasRecording_Always(session) == TRUE

HasRecording(session) == Truthy(Get(session, "video_uri", None))

\* start_transcription_job: the request sent to the service; the job name
\* without its int(time.time()) suffix
TranscriptionRequest(session) ==
    LET session_id == session.session_id
        video_uri == session.video_uri
        s3_path == SubSeq(video_uri, 6, Len(video_uri))
        slash == Smallest(Positions(s3_path, "/"))
        bucket == IF StartsWith(video_uri, "s3://")
                  THEN SubSeq(s3_path, 1, slash - 1) ELSE S3_BUCKET
        key == IF StartsWith(video_uri, "s3://")
               THEN SubSeq(s3_path, slash + 1, Len(s3_path)) ELSE video_uri
    IN  [MedicalTranscriptionJobName |-> "cme-transcribe-" \o session_id,
         MediaFileUri |-> "s3://" \o bucket \o "/" \o key,
         OutputBucketName |-> bucket,
         OutputKey |-> "cme-transcripts/" \o session_id \o "/transcript.json"]

\* whether start_transcription_job raises before or in the call of the service
TranscriptionFails(session, fault) ==
    \/ "video_uri" \notin DOMAIN session
    \/ /\ StartsWith(session.video_uri, "s3://")
       /\ Positions(SubSeq(session.video_uri, 6, Len(session.video_uri)), "/") = {}
    \/ fault = "start_medical_transcription_job"

start_transcription_job(session, fault) ==
    IF TranscriptionFails(session, fault) THEN [error |-> "transcribe"]
    ELSE [job_name |-> TranscriptionRequest(session).MedicalTranscriptionJobName,
          status |-> "IN_PROGRESS",
          output_uri |-> "s3://" \o TranscriptionRequest(session).OutputBucketName
                            \o "/" \o TranscriptionRequest(session).OutputKey]

CreateBodies ==
    {[doctor_name |-> "Dr. Lee"],
     [patient_id |-> "patient-1", doctor_name |-> "Dr. Lee"]}
        \cup {[patient_id |-> "patient-1", doctor_name |-> "Dr. Lee", state |-> st] :
                st \in {"pa", "TX", "NY"}}

\* handle_create_cme_session
CreateSession ==
    /\ Serve
    /\ \E body \in CreateBodies, fault \in {NoFault, "put_item"} :
        LET patient_id == Get(body, "patient_id", None)
            doctor_name == Get(body, "doctor_name", None)
            state == Get(body, "state", "FL")
            state_upper == Upper(state)
            recording_rules == RecordingRules(state_upper)
            session_data ==
                create_exam_session(SessionId(Cardinality(CreatedIds) + 1),
                                    patient_id, doctor_name, state_upper)
        IN  /\ request' = Event("/cme/sessions", body)
            /\ IF ~(Truthy(patient_id) /\ Truthy(doctor_name))
               THEN /\ api_response' = create_response(400, [error |-> "Missing required fields"])
                    /\ UNCHANGED sessions_table
               ELSE IF fault = "put_item"
               THEN /\ api_response' = create_response(500, [error |-> "Error creating CME session"])
                    /\ UNCHANGED sessions_table
               ELSE /\ sessions_table' =
                        (session_data.session_id :> session_data) @@ sessions_table
                    /\ api_response' =
                        create_response(201,
                            [session_id |-> session_data.session_id,
                             state |-> state_upper,
                             recording_mode |-> recording_rules.mode,
                             recording_allowed |->
                                 [video |-> recording_rules.video,
                                  audio |-> recording_rules.audio],
                             session |-> session_data])
    /\ UNCHANGED <<consent_table, transcription_jobs>>
    /\ UNCHANGED <<nlp_vars, report_vars, video_vars>>

ConsentBodies ==
    {[session_id |-> id, participant_role |-> "patient", signature |-> "J. Doe"] :
        id \in AskedIds}
        \cup {[session_id |-> id, participant_role |-> "patient"] : id \in AskedIds}

\* handle_submit_consent
SubmitConsent ==
    /\ Serve
    /\ \E body \in ConsentBodies, fault \in {NoFault, "put_item", "update_item"} :
        LET session_id == Get(body, "session_id", None)
            participant_role == Get(body, "participant_role", None)
            signature == Get(body, "signature", None)
            consent_text == Get(body, "consent_text", None)
            consent_data ==
                [create_consent_record(ConsentId(Len(consent_table) + 1),
                     session_id, participant_role, signature,
                     IF Truthy(consent_text) THEN consent_text ELSE "")
                 EXCEPT !.ip_address = Get(body, "ip_address", "")]
        IN  /\ request' = Event("/cme/consent", body)
            /\ IF ~(Truthy(session_id) /\ Truthy(participant_role) /\ Truthy(signature))
               THEN /\ api_response' = create_response(400, [error |-> "Missing required fields"])
                    /\ UNCHANGED <<consent_table, sessions_table>>
               ELSE IF fault = "put_item"
               THEN /\ api_response' = create_response(500, [error |-> "Error submitting consent"])
                    /\ UNCHANGED <<consent_table, sessions_table>>
               ELSE IF fault = "update_item"
               THEN /\ consent_table' = Append(consent_table, consent_data)
                    /\ api_response' = create_response(500, [error |-> "Error submitting consent"])
                    /\ UNCHANGED sessions_table
               ELSE /\ consent_table' = Append(consent_table, consent_data)
                    /\ sessions_table' =
                        update_item(sessions_table, session_id,
                                    [consent_hash |-> consent_data.consent_id])
                    /\ api_response' =
                        create_response(200,
                            [consent_id |-> consent_data.consent_id,
                             session_id |-> session_id,
                             participant_role |-> participant_role])
    /\ UNCHANGED transcription_jobs
    /\ UNCHANGED <<nlp_vars, report_vars, video_vars>>

UploadBodies ==
    {[filename |-> "exam.m4a"], [session_id |-> ""]}
        \cup {[session_id |-> id] : id \in AskedIds}
        \cup {[session_id |-> id, content_type |-> "text/plain"] : id \in AskedIds}
        \cup {[session_id |-> id, content_type |-> "audio/mpeg",
                filename |-> "exam.m4a"] : id \in AskedIds}

\* handle_upload_cme_recording
UploadRecording ==
    /\ Serve
    /\ \E body \in UploadBodies,
          fault \in {NoFault, "get_item", "update_item"} :
        LET session_id == Get(body, "session_id", None)
            filename == Get(body, "filename", "recording.mp4")
            content_type == Get(body, "content_type", "video/mp4")
            session == get_item(sessions_table, session_id)
            is_video == StartsWith(content_type, "video/")
            is_audio == StartsWith(content_type, "audio/")
            recording_rules == Get(session, "recording_allowed", EmptyDict)
            s3_key == "cme-recordings/" \o session_id \o "/recording."
                        \o FileExtension(filename)
        IN  /\ request' = Event("/cme/upload", body)
            /\ IF ~Truthy(session_id)
               THEN /\ api_response' = create_response(400, [error |-> "session_id is required"])
                    /\ UNCHANGED sessions_table
               ELSE IF fault = "get_item"
               THEN /\ api_response' = create_response(500, [error |-> "Error creating upload URL"])
                    /\ UNCHANGED sessions_table
               ELSE IF ~HasItem(sessions_table, session_id)
               THEN /\ api_response' = create_response(404, [error |-> "CME session not found"])
                    /\ UNCHANGED sessions_table
               ELSE IF VideoRefused(is_video, recording_rules)
               THEN /\ api_response' =
                        create_response(403,
                            [error |-> "Video recording not permitted",
                             allowed |-> recording_rules])
                    /\ UNCHANGED sessions_table
               ELSE IF ~is_video /\ ~is_audio
               THEN /\ api_response' =
                        create_response(400, [error |-> "File must be video or audio format"])
                    /\ UNCHANGED sessions_table
               ELSE IF fault # NoFault
               THEN /\ api_response' = create_response(500, [error |-> "Error creating upload URL"])
                    /\ UNCHANGED sessions_table
               ELSE /\ sessions_table' =
                        update_item(sessions_table, session_id,
                            [video_uri |-> "s3://" \o S3_BUCKET \o "/" \o s3_key,
                             status |-> "recording_uploaded",
                             processing_stage |-> "ingestion"])
                    /\ api_response' =
                        create_response(200,
                            [session_id |-> session_id,
                             upload_url |->
                                 [Bucket |-> S3_BUCKET, Key |-> s3_key,
                                  ContentType |-> content_type],
                             s3_key |-> s3_key])
    /\ UNCHANGED <<consent_table, transcription_jobs>>
    /\ UNCHANGED <<nlp_vars, report_vars, video_vars>>

ProcessBodies == {EmptyDict} \cup {[session_id |-> id] : id \in AskedIds}

\* handle_start_cme_processing
StartProcessing ==
    /\ Serve
    /\ \E body \in ProcessBodies,
          fault \in {NoFault, "get_item", "update_item",
                     "start_medical_transcription_job"} :
        LET session_id == Get(body, "session_id", None)
            session == get_item(sessions_table, session_id)
            transcription_job == start_transcription_job(session, fault)
        IN  /\ request' = Event("/cme/process", body)
            /\ IF ~Truthy(session_id)
               THEN /\ api_response' = create_response(400, [error |-> "session_id is required"])
                    /\ UNCHANGED <<sessions_table, transcription_jobs>>
               ELSE IF fault = "get_item"
               THEN /\ api_response' = create_response(500, [error |-> "Error starting processing"])
                    /\ UNCHANGED <<sessions_table, transcription_jobs>>
               ELSE IF ~HasItem(sessions_table, session_id)
               THEN /\ api_response' = create_response(404, [error |-> "CME session not found"])
                    /\ UNCHANGED <<sessions_table, transcription_jobs>>
               ELSE IF ~HasRecording(session)
               THEN /\ api_response' =
                        create_response(400, [error |-> "No recording uploaded for this session"])
                    /\ UNCHANGED <<sessions_table, transcription_jobs>>
               ELSE IF fault = "update_item"
               THEN /\ api_response' = create_response(500, [error |-> "Error starting processing"])
                    /\ UNCHANGED <<sessions_table, transcription_jobs>>
               ELSE /\ sessions_table' =
                        update_item(sessions_table, session_id,
                            [status |-> "processing",
                             processing_stage |-> "transcription"])
                    /\ transcription_jobs' =
                        IF TranscriptionFails(session, fault) THEN transcription_jobs
                        ELSE Append(transcription_jobs, TranscriptionRequest(session))
                    /\ api_response' =
                        create_response(200,
                            [session_id |-> session_id,
                             status |-> "processing",
                             stage |-> "transcription",
                             transcription_job |-> transcription_job])
    /\ UNCHANGED consent_table
    /\ UNCHANGED <<nlp_vars, report_vars, video_vars>>

\* handler: the requests no route serves
OtherRequest ==
    /\ Serve
    /\ \E event \in {[httpMethod |-> "OPTIONS", path |-> "/cme/process",
                      body |-> [session_id |-> UNKNOWN_ID]],
                     [httpMethod |-> "POST", path |-> "/cme/report",
                      body |-> EmptyDict]} :
        /\ request' = event
        /\ api_response' = IF event.httpMethod = "OPTIONS"
                       THEN create_response(200, EmptyDict)
                       ELSE create_response(404, [error |-> "Endpoint not found"])
    /\ UNCHANGED <<sessions_table, consent_table, transcription_jobs>>
    /\ UNCHANGED <<nlp_vars, report_vars, video_vars>>

HandlerInit ==
    /\ HandlerIdle
    /\ NlpIdle
    /\ ReportIdle
    /\ VideoIdle

HandlerNext ==
    \/ CreateSession
    \/ SubmitConsent
    \/ UploadRecording
    \/ StartProcessing
    \/ OtherRequest

HandlerSpec == HandlerInit /\ [][HandlerNext]_vars

(***************************************************************************)
(* Properties.  The locals of an iteration are those of the segment just   *)
(* processed: segment dt_i - 1 while pc = "detect", segment dm_i - 1 while *)
(* pc = "demeanor".                                                        *)
(***************************************************************************)

Segs  == SegmentsOf(transcript)
Items == ItemsOf(transcript)

SegStart(i)   == FloatField(Segs[i], "start_time")
SegEnd(i)     == FloatField(Segs[i], "end_time")
IsExaminer(i) == Get(Segs[i], "speaker_label", None) = EXAMINER

\* the items of a segment's window: pronunciations that start inside it
WindowIndices(i) ==
    {k \in DOMAIN Items :
        /\ Items[k].type = "pronunciation"
        /\ SegStart(i) <= ParseFloat(Items[k].start_time)
        /\ ParseFloat(Items[k].start_time) <= SegEnd(i)}

\* the j-th smallest element of a set of indices
NthOf(S, j) == CHOOSE k \in S : Cardinality({m \in S : m < k}) = j - 1

WindowWords(i) ==
    [j \in 1..Cardinality(WindowIndices(i)) |->
        Items[NthOf(WindowIndices(i), j)].alternatives[1].content]

RECURSIVE LenSum(_, _)
\* the total length of the first j words
LenSum(ws, j) == IF j = 0 THEN 0 ELSE LenSum(ws, j - 1) + Len(ws[j])

\* t is the words ws in order, with exactly one space between neighbours
IsJoined(t, ws) ==
    IF ws = <<>> THEN t = ""
    ELSE /\ Len(t) = LenSum(ws, Len(ws)) + Len(ws) - 1
         /\ \A j \in DOMAIN ws :
               LET off == LenSum(ws, j - 1) + (j - 1)
               IN  /\ SubSeq(t, off + 1, off + Len(ws[j])) = ws[j]
                   /\ j < Len(ws) => Char(t, off + Len(ws[j]) + 1) = " "

\* C1: the text extracted for a segment (in detect_declared_tests and in
\* analyze_examiner_demeanor alike) is, in item order and joined by single
\* spaces, exactly the contents of the pronunciation items whose start time
\* lies in [start_time, end_time], both ends included; it is the empty
\* string when there is no such item.
C1_SegmentText ==
    /\ (pc = "detect" /\ dt_i > 1) =>
          IsJoined(dt_locals.segment_text, WindowWords(dt_i - 1))
    /\ (pc = "demeanor" /\ dm_i > 1) =>
          IsJoined(dm_locals.segment_text, WindowWords(dm_i - 1))

\* a window with a word on its first instant, another on its last, and a
\* spoken word outside it
C1_Witness ==
    /\ pc = "detect" /\ dt_i = 2
    /\ SegStart(1) < SegEnd(1)
    /\ \E k \in WindowIndices(1) : ParseFloat(Items[k].start_time) = SegStart(1)
    /\ \E k \in WindowIndices(1) : ParseFloat(Items[k].start_time) = SegEnd(1)
    /\ \E k \in DOMAIN Items :
          Items[k].type = "pronunciation" /\ ParseFloat(Items[k].start_time) > SegEnd(1)
    /\ dt_locals.segment_text = "rom test"

Detected == dt_locals.detected_tests
Cat(i)   == dt_locals.categories[i]

EmittedFor(i) == \E j \in DOMAIN Detected : Detected[j].label = TestLabels[i]

\* C2: a category with at least one matching pattern rule is emitted for the
\* text, with confidence >= 0.5, whatever its keyword hits and whether or
\* not a declaration phrase is present.
C2_PatternEmits ==
    (pc = "detect" /\ dt_i > 1) =>
        \A i \in DOMAIN TestLabels :
            Cat(i).pattern_matches > 0 =>
                \E j \in DOMAIN Detected :
                    /\ Detected[j].label = TestLabels[i]
                    /\ Detected[j].confidence >= Tenths(5)

\* a pattern match with no keyword hit and no declaration phrase
C2_Witness ==
    /\ pc = "detect" /\ dt_i > 1
    /\ \E i \in DOMAIN TestLabels :
          /\ Cat(i).pattern_matches > 0
          /\ Cat(i).keyword_matches = 0
          /\ ~Cat(i).has_declaration
          /\ EmittedFor(i)

\* C3: a category with no keyword hit and no pattern match keeps confidence
\* 0, declaration phrase or not, and is not emitted.
C3_NoSignalNoEvent ==
    (pc = "detect" /\ dt_i > 1) =>
        \A i \in DOMAIN TestLabels :
            (Cat(i).keyword_matches = 0 /\ Cat(i).pattern_matches = 0) =>
                Cat(i).confidence = 0 /\ ~EmittedFor(i)

\* a declaration phrase in a text without any signal for some category
C3_Witness ==
    /\ pc = "detect" /\ dt_i > 1
    /\ \E i \in DOMAIN TestLabels :
          /\ Cat(i).has_declaration
          /\ Cat(i).keyword_matches = 0
          /\ Cat(i).pattern_matches = 0

\* C4: every declared-test event has a confidence in [0.5, 1]; a category
\* whose terms sum to more than 1 is emitted with confidence exactly 1.
C4_ConfidenceRange ==
    /\ \A j \in DOMAIN declared_tests :
          /\ declared_tests[j].confidence >= 0
          /\ declared_tests[j].confidence >= Tenths(5)
          /\ declared_tests[j].confidence <= ConfScale
    /\ (pc = "detect" /\ dt_i > 1) =>
          \A i \in DOMAIN TestLabels :
              Cat(i).confidence > ConfScale =>
                  \E j \in DOMAIN Detected :
                      /\ Detected[j].label = TestLabels[i]
                      /\ Detected[j].confidence = ConfScale

\* lexical, structural and bonus terms that sum to more than 1
C4_Witness ==
    /\ pc = "detect" /\ dt_i > 1
    /\ \E i \in DOMAIN TestLabels :
          /\ Cat(i).confidence > ConfScale
          /\ Cat(i).keyword_matches > 0 /\ Cat(i).pattern_matches > 0
          /\ Cat(i).has_declaration

\* C5: the categories emitted for a text are exactly those whose own clamped
\* score is >= 0.5, each once: no single winner is selected.
C5_AllAboveThreshold ==
    (pc = "detect" /\ dt_i > 1) =>
        /\ \A i \in DOMAIN TestLabels :
              EmittedFor(i) <=> MinOf(Cat(i).confidence, ConfScale) >= Tenths(5)
        /\ \A j, k \in DOMAIN Detected :
              Detected[j].label = Detected[k].label => j = k
        /\ \A j \in DOMAIN Detected :
              \E i \in DOMAIN TestLabels : Detected[j].label = TestLabels[i]

\* one segment that declares two test categories
C5_Witness ==
    /\ pc = "detect" /\ dt_i > 1
    /\ Len(Detected) >= 2
    /\ Detected[1].label # Detected[2].label

\* the position of segment i in its run of consecutive examiner segments: the
\* distance to the last earlier segment of another speaker, or to the start
RunPos(i) ==
    LET others == {j \in 1..(i - 1) : ~IsExaminer(j)}
    IN  IF others = {} THEN i ELSE i - (CHOOSE j \in others : \A m \in others : m <= j)

\* whether the except clause of function f has logged an error
Logged(f) == \E k \in DOMAIN errors : errors[k] = f

\* the segments start at distinct times, so that the start time of a flag
\* names its segment
DistinctStarts ==
    \A i, j \in DOMAIN Segs : i # j => SegStart(i) # SegStart(j)

\* the interruption flags stamped with the start time of segment i
InterruptionsAt(i) ==
    {j \in DOMAIN demeanor_flags :
        /\ demeanor_flags[j].flag_type = "interruption"
        /\ demeanor_flags[j].timestamp = SegStart(i)}

\* C6: an examiner segment that is the 1st or 2nd of its run gets no
\* interruption flag; the count the loop keeps is the position in the run,
\* which restarts after a segment of another speaker.
C6_NoEarlyInterruption ==
    /\ DistinctStarts =>
          \A i \in 1..(dm_i - 1) :
              (IsExaminer(i) /\ RunPos(i) <= 2) => InterruptionsAt(i) = {}
    /\ (dm_i > 1 /\ IsExaminer(dm_i - 1)) =>
          consecutive_count = RunPos(dm_i - 1) - 1

\* a second run of two examiner segments, after a segment of another speaker
C6_Witness ==
    /\ dm_i = 5
    /\ IsExaminer(1) /\ ~IsExaminer(2) /\ IsExaminer(3) /\ IsExaminer(4)
    /\ RunPos(4) = 2
    /\ InterruptionsAt(4) = {}

\* C7: an examiner segment that is the k-th of its run, k >= 3, gets exactly
\* one interruption flag, of severity medium, at its start time, whose
\* description names k (in a pass that no exception has ended, the start
\* times naming the segments).
C7_InterruptionFromThird ==
    (DistinctStarts /\ ~Logged("analyze_examiner_demeanor")) =>
        \A i \in 1..(dm_i - 1) :
            (IsExaminer(i) /\ RunPos(i) >= 3) =>
                /\ Cardinality(InterruptionsAt(i)) = 1
                /\ \A j \in InterruptionsAt(i) :
                      /\ demeanor_flags[j].severity = "medium"
                      /\ demeanor_flags[j].description =
                            "Examiner spoke " \o Str(RunPos(i)) \o " times consecutively"

\* a run of four examiner segments: flags for the 3rd and the 4th
C7_Witness ==
    /\ dm_i = 5
    /\ \A i \in 1..4 : IsExaminer(i)
    /\ Cardinality(InterruptionsAt(3)) = 1
    /\ Cardinality(InterruptionsAt(4)) = 1

ScanKinds == {"interruption", "negative_tone", "dismissive", "aggressive"}
ToneKinds == {"negative_tone", "dismissive", "aggressive"}

SegText(i) == _get_segment_text(Segs[i], Items)

RECURSIVE ExaminerTone(_)
\* the tone flags of the examiner segments i, i+1, ..., in order
ExaminerTone(i) ==
    IF i > Len(Segs) THEN <<>>
    ELSE (IF IsExaminer(i) THEN _analyze_tone(SegText(i), SegStart(i)) ELSE <<>>)
         \o ExaminerTone(i + 1)

\* C8: the tone scan runs on every examiner segment, in a run or not, and on
\* no other: every interruption or tone flag carries the start time and the
\* text of an examiner segment, a segment of another speaker has no flag, and
\* at the end of the loop the tone flags are those of the examiner segments.
C8_ExaminerOnly ==
    /\ \A j \in DOMAIN demeanor_flags :
          demeanor_flags[j].flag_type \in ScanKinds =>
              \E i \in 1..(dm_i - 1) :
                  /\ IsExaminer(i)
                  /\ demeanor_flags[j].timestamp = SegStart(i)
                  /\ demeanor_flags[j].transcript_excerpt = Prefix(SegText(i), ExcerptLen)
    /\ DistinctStarts =>
          \A i \in 1..(dm_i - 1) :
              ~IsExaminer(i) =>
                  \A j \in DOMAIN demeanor_flags :
                      demeanor_flags[j].timestamp = SegStart(i) =>
                          demeanor_flags[j].flag_type \notin ScanKinds
    /\ (pc = "demeanor" /\ dm_i > Len(Segs)) =>
          SelectSeq(demeanor_flags, LAMBDA f : f.flag_type \in ToneKinds)
              = ExaminerTone(1)

\* a first examiner utterance with a tone flag, and another speaker saying the
\* same words
C8_Witness ==
    /\ pc = "demeanor" /\ dm_i > Len(Segs)
    /\ Len(Segs) >= 2
    /\ IsExaminer(1) /\ ~IsExaminer(2)
    /\ SegText(1) = "shut up" /\ SegText(2) = "shut up"
    /\ Len(demeanor_flags) = 1

ToneFlags  == dm_locals.flags
CountOf(kind, severity) ==
    Cardinality({j \in DOMAIN ToneFlags :
                    ToneFlags[j].flag_type = kind /\ ToneFlags[j].severity = severity})

\* C9: for an examiner segment _analyze_tone returns one negative_tone/high
\* flag per indicator phrase found in the lowered text, its description
\* quoting that phrase, one dismissive/medium flag per matching dismissive
\* pattern and one aggressive/high flag per matching control pattern, and
\* nothing else.
C9_OneFlagPerIndicator ==
    (pc = "demeanor" /\ dm_i > 1 /\ IsExaminer(dm_i - 1)) =>
        LET text_lower == Lower(dm_locals.segment_text)
            found == {i \in DOMAIN NEGATIVE_TONE_INDICATORS :
                         Contains(NEGATIVE_TONE_INDICATORS[i], text_lower)}
            dismissive == {i \in DOMAIN DISMISSIVE_PATTERNS :
                              Search(DISMISSIVE_PATTERNS[i], text_lower)}
            aggressive == {i \in DOMAIN INTERRUPTION_PATTERNS :
                              Search(INTERRUPTION_PATTERNS[i], text_lower)}
        IN  /\ CountOf("negative_tone", "high") = Cardinality(found)
            /\ CountOf("dismissive", "medium") = Cardinality(dismissive)
            /\ CountOf("aggressive", "high") = Cardinality(aggressive)
            /\ Len(ToneFlags) =
                  Cardinality(found) + Cardinality(dismissive) + Cardinality(aggressive)
            /\ \A i \in found :
                  \E j \in DOMAIN ToneFlags :
                      /\ ToneFlags[j].flag_type = "negative_tone"
                      /\ ToneFlags[j].description =
                            "Negative language detected: \"" \o
                                NEGATIVE_TONE_INDICATORS[i] \o "\""

\* "That's ridiculous, you're lying": two negative_tone flags
C9_Witness ==
    /\ pc = "demeanor" /\ dm_i = 2 /\ IsExaminer(1)
    /\ dm_locals.segment_text = "That's ridiculous, you're lying"
    /\ CountOf("negative_tone", "high") = 2

SentimentAt ==
    {j \in DOMAIN demeanor_flags : demeanor_flags[j].flag_type = "negative_sentiment"}

\* the first segment of the examiner
FirstExaminer == CHOOSE i \in DOMAIN Segs : IsExaminer(i) /\ \A j \in 1..(i - 1) : ~IsExaminer(j)

\* C10: when the oracle answers with a negative score > 0.6 the result holds
\* exactly one negative_sentiment flag, of severity medium, at the start time
\* of the first examiner segment; with a score <= 0.6 it holds none.
C10_NegativeSentiment ==
    (pc \in {"return", "done"} /\ comprehend_calls # <<>>
        /\ ~comprehend_calls[1].raised) =>
        LET negative == comprehend_calls[1].response.SentimentScore.Negative
        IN  /\ negative > 6 =>
                  /\ Cardinality(SentimentAt) = 1
                  /\ \A j \in SentimentAt :
                        /\ demeanor_flags[j].severity = "medium"
                        /\ demeanor_flags[j].timestamp = SegStart(FirstExaminer)
            /\ negative <= 6 => SentimentAt = {}

\* a negative score of 0.7 for a dialogue the other speaker opens
C10_Witness ==
    /\ pc = "done"
    /\ comprehend_calls # <<>> /\ ~comprehend_calls[1].raised
    /\ comprehend_calls[1].response.SentimentScore.Negative = 7
    /\ ~IsExaminer(1) /\ FirstExaminer = 2
    /\ Cardinality(SentimentAt) = 1

\* the step in which the oracle is called and raises
OracleRaisesStep ==
    /\ pc = "demeanor" /\ pc' = "return"
    /\ Len(comprehend_calls') = Len(comprehend_calls) + 1
    /\ comprehend_calls'[Len(comprehend_calls')].raised

\* C11: when the oracle call raises, the flags analyze_examiner_demeanor
\* returns are the interruption and tone flags collected by the loop, all of
\* them and unchanged, and no negative_sentiment flag.
C11_OracleFailureKeepsFlags ==
    [][OracleRaisesStep =>
          /\ demeanor_flags' = demeanor_flags
          /\ \A j \in DOMAIN demeanor_flags' :
                demeanor_flags'[j].flag_type \in ScanKinds]_vars

\* the oracle raised after the loop had collected an interruption flag and a
\* tone flag, and both are returned
C11_Witness ==
    /\ pc = "done"
    /\ comprehend_calls # <<>> /\ comprehend_calls[1].raised
    /\ \E j, k \in DOMAIN result.demeanor_flags :
          /\ result.demeanor_flags[j].flag_type = "interruption"
          /\ result.demeanor_flags[k].flag_type = "aggressive"

\* the analysis of segment i fails: converting its times or reading the words
\* of its window raises
SegmentFails(i) == TextRaises(Segs[i], Items)

\* whether list holds record r
Holds(list, r) == \E j \in DOMAIN list : list[j] = r

\* the events the classifier finds in segment i, as detect_declared_tests
\* returns them
TestsOf(i) ==
    TagTests(_analyze_text_for_tests(SegText(i), SegStart(i)),
             Get(Segs[i], "speaker_label", "unknown"), SegText(i))

\* C12: when the analysis of one segment fails, the result still holds the
\* declared tests of every other segment and the tone flags of every other
\* examiner segment.
C12_PartialResults ==
    (pc = "done" /\ \E i \in DOMAIN Segs : SegmentFails(i)) =>
        \A i \in DOMAIN Segs :
            ~SegmentFails(i) =>
                /\ \A j \in DOMAIN TestsOf(i) :
                      Holds(result.declared_tests, TestsOf(i)[j])
                /\ IsExaminer(i) =>
                      \A j \in DOMAIN _analyze_tone(SegText(i), SegStart(i)) :
                          Holds(result.demeanor_flags,
                                _analyze_tone(SegText(i), SegStart(i))[j])

\* segment i lacks a time, or its text cannot be resolved
Malformed(i) ==
    \/ "start_time" \notin DOMAIN Segs[i]
    \/ "end_time" \notin DOMAIN Segs[i]
    \/ SegmentFails(i)

RECURSIVE WellFormedTests(_)
\* the declared tests of the well-formed segments i, i+1, ..., in order
WellFormedTests(i) ==
    IF i > Len(Segs) THEN <<>>
    ELSE (IF Malformed(i) THEN <<>> ELSE TestsOf(i)) \o WellFormedTests(i + 1)

\* C13: a malformed segment contributes no declared test and the other
\* segments are processed as if it were absent: the declared tests of the
\* result are those of the well-formed segments.
C13_MalformedIsZeroSignal ==
    (pc = "done" /\ \E i \in DOMAIN Segs : Malformed(i)) =>
        result.declared_tests = WellFormedTests(1)

\* the transcript cannot be read: it is no mapping, or has no results
Unreadable == ~IsMapping(transcript) \/ "results" \notin DOMAIN transcript

\* C14: for an unreadable transcript the caller does not get a result of
\* status completed with two empty lists.
C14_UnreadableSurfaced ==
    (pc = "done" /\ Unreadable) =>
        ~(/\ result.status = "completed"
          /\ result.declared_tests = <<>>
          /\ result.demeanor_flags = <<>>)

(***************************************************************************)
(* Properties of the report generator                                      *)
(***************************************************************************)

\* a report has been generated for a session
Generated == report # EmptyDict /\ "timeline" \in DOMAIN report

\* the observed actions stored for a step
StoredFor(step_id) ==
    {k \in DOMAIN actions_table : actions_table[k].declared_step_id = step_id}

\* C15: a declared step without a stored verdict is reported as pending: its
\* status is 'pending', it is not highlighted as a discrepancy and it is not
\* counted among the tests not observed.
C15_PendingWithoutVerdict ==
    Generated =>
        /\ \A k \in DOMAIN report.timeline :
              StoredFor(report.timeline[k].declared_step_id) = {} =>
                  /\ report.timeline[k].motion_present = "pending"
                  /\ report.timeline[k].discrepancy_class = ""
        /\ report.tests_not_performed <=
              Cardinality({k \in DOMAIN report.timeline :
                  StoredFor(report.timeline[k].declared_step_id) # {}})

\* C16: a timeline item is highlighted as a discrepancy exactly when the
\* action paired with its step has motion_present brief or not_observed;
\* pose_match plays no part.
C16_DiscrepancyIffBriefOrNotObserved ==
    Generated =>
        \A k \in DOMAIN report.timeline :
            LET item == report.timeline[k]
            IN  (item.discrepancy_class = "discrepancy") <=>
                    /\ item.action # EmptyDict
                    /\ item.action.motion_present \in {"brief", "not_observed"}

\* a report of session-1 with lumbar_rom not observed and highlighted, and
\* straight_leg_raise performed with no pose match and not highlighted
C16_Witness ==
    /\ Generated
    /\ Len(report.timeline) = 2
    /\ report.timeline[1].label = "lumbar_rom"
    /\ report.timeline[1].action # EmptyDict
    /\ report.timeline[1].action.motion_present = "not_observed"
    /\ report.timeline[1].discrepancy_class = "discrepancy"
    /\ report.timeline[2].action # EmptyDict
    /\ report.timeline[2].action.motion_present = "performed"
    /\ report.timeline[2].action.pose_match = "no_match"
    /\ report.timeline[2].discrepancy_class = ""

\* C17: each step of a report is paired with no action or with one action
\* stored under the step's own id, and a step for which an action is stored
\* is paired with an action.
C17_PairedByIdentity ==
    Generated =>
        \A k \in DOMAIN report.timeline :
            LET item == report.timeline[k]
            IN  /\ item.action # EmptyDict =>
                      /\ item.action.declared_step_id = item.declared_step_id
                      /\ \E j \in StoredFor(item.declared_step_id) :
                            actions_table[j] = item.action
                /\ StoredFor(item.declared_step_id) # {} =>
                      item.action # EmptyDict

NewTests ==
    SubSeq(declared_tests,
           Len(declared_tests) - Len(dt_locals.detected_tests) + 1,
           Len(declared_tests))

\* C19: every declared-test event carries the start time of the segment it
\* was detected in as its timestamp, that segment's speaker label as its
\* speaker, and as matched_text the first min(200, length) characters of the
\* segment's text as spoken, upper-case letters kept.
C19_EventFields ==
    (pc = "detect" /\ dt_i > 1) =>
        \A k \in DOMAIN NewTests :
            LET e    == NewTests[k]
                text == dt_locals.segment_text
            IN  /\ e.timestamp = SegStart(dt_i - 1)
                /\ e.speaker = Segs[dt_i - 1].speaker_label
                /\ Len(e.matched_text) = MinOf(200, Len(text))
                /\ e.matched_text = SubSeq(text, 1, Len(e.matched_text))
                /\ IsJoined(text, WindowWords(dt_i - 1))

\* an event of a segment that starts after 0 and whose text has upper-case
\* letters and more than 200 characters
C19_Witness ==
    /\ pc = "detect" /\ dt_i > 1
    /\ NewTests # <<>>
    /\ SegStart(dt_i - 1) > 0
    /\ Len(dt_locals.segment_text) > 200
    /\ Len(NewTests[1].matched_text) = 200
    /\ Lower(NewTests[1].matched_text) # NewTests[1].matched_text

\* C20: every declared-test event comes from a segment attributed to the
\* examiner; a segment of another speaker yields no declared-test event.
C20_ExaminerSpeechOnly ==
    /\ \A k \in DOMAIN declared_tests : declared_tests[k].speaker = EXAMINER
    /\ (pc = "detect" /\ dt_i > 1 /\ ~IsExaminer(dt_i - 1)) => NewTests = <<>>

\* the first ten segments of the examiner, and their texts in segment order
SampleIndices ==
    {i \in DOMAIN Segs :
        IsExaminer(i) /\ Cardinality({j \in 1..(i - 1) : IsExaminer(j)}) < 10}
SampleTexts ==
    [j \in 1..Cardinality(SampleIndices) |-> SegText(NthOf(SampleIndices, j))]

\* t is the first min(5000, length) characters of the texts ws joined by
\* single spaces
IsSampleOf(t, ws) ==
    LET whole == IF ws = <<>> THEN 0 ELSE LenSum(ws, Len(ws)) + Len(ws) - 1
    IN  /\ Len(t) = MinOf(5000, whole)
        /\ \A j \in DOMAIN ws :
              LET off  == LenSum(ws, j - 1) + (j - 1)
                  last == MinOf(off + Len(ws[j]), Len(t))
              IN  /\ off < Len(t) => SubSeq(t, off + 1, last) = SubSeq(ws[j], 1, last - off)
                  /\ (j < Len(ws) /\ off + Len(ws[j]) < Len(t)) =>
                        Char(t, off + Len(ws[j]) + 1) = " "

\* C21: in one run the sentiment oracle is called at most once, with a text
\* of at most 5000 characters that is the beginning of the texts of the
\* first 10 examiner segments joined in segment order (so no later examiner
\* segment is in it); it is not called when that text is empty; and the
\* flags hold at most one negative_sentiment flag.
C21_SentimentSample ==
    /\ Len(comprehend_calls) <= 1
    /\ \A c \in DOMAIN comprehend_calls :
          /\ comprehend_calls[c].Text # ""
          /\ Len(comprehend_calls[c].Text) <= 5000
          /\ IsSampleOf(comprehend_calls[c].Text, SampleTexts)
    /\ Cardinality(SentimentAt) <= 1
    /\ (pc \in {"return", "done"} /\ ~Logged("analyze_examiner_demeanor")
          /\ IsSampleOf("", SampleTexts)) => comprehend_calls = <<>>

\* a call with a sample cut at 5000 characters, taken from a transcript with
\* eleven examiner segments, that led to a negative_sentiment flag
C21_Witness ==
    /\ pc = "done"
    /\ Len(comprehend_calls) = 1
    /\ Len(comprehend_calls[1].Text) = 5000
    /\ Cardinality({i \in DOMAIN Segs : IsExaminer(i)}) = 11
    /\ Cardinality(SentimentAt) = 1

\* the flags the oracle call of the run led to
OracleFlags ==
    IF comprehend_calls = <<>> \/ comprehend_calls[1].raised THEN <<>>
    ELSE SentimentFlags(comprehend_calls[1].response, comprehend_calls[1].Text,
                        ExaminerSegments(Segs))

\* C22: with the two analyses run side by side over one transcript, in any
\* interleaving of their iterations, the result holds the declared tests
\* detect_declared_tests returns alone and the demeanor flags
\* analyze_examiner_demeanor returns alone.
C22_OrderIndependent ==
    pc = "done" =>
        /\ result.declared_tests = detect_declared_tests(transcript)
        /\ result.demeanor_flags =
              analyze_examiner_demeanor(transcript, OracleFlags)

\* a run in which analyze_examiner_demeanor returned before
\* detect_declared_tests did, with declared tests and an interruption flag
C22_Witness ==
    /\ pc = "done"
    /\ threads.first = "demeanor"
    /\ result.declared_tests # <<>>
    /\ \E j \in DOMAIN result.demeanor_flags :
          result.demeanor_flags[j].flag_type = "interruption"

\* the number of keywords of the i-th category
KeywordsOf(i) == Len(TEST_TAXONOMY[TestLabels[i]].keywords)

\* C23: for a category without a pattern match the lexical term is at most
\* 0.3 and the score at most 0.5; the category is emitted iff all its
\* keywords occur in the text and a declaration phrase is present, and then
\* with confidence exactly 0.5; without a declaration phrase it is never
\* emitted.
C23_KeywordsAlone ==
    (pc = "detect" /\ dt_i > 1) =>
        \A i \in DOMAIN TestLabels :
            Cat(i).pattern_matches = 0 =>
                /\ Cat(i).keyword_matches <= KeywordsOf(i)
                /\ Cat(i).confidence
                      - (IF Cat(i).has_declaration /\ Cat(i).keyword_matches > 0
                         THEN Tenths(2) ELSE 0) <= Tenths(3)
                /\ Cat(i).confidence <= Tenths(5)
                /\ EmittedFor(i) <=>
                      (Cat(i).keyword_matches = KeywordsOf(i) /\ Cat(i).has_declaration)
                /\ \A j \in DOMAIN Detected :
                      Detected[j].label = TestLabels[i] => Detected[j].confidence = Tenths(5)

\* 'spine' emitted at 0.5 for a text with a declaration phrase, its five
\* keywords and no pattern match
C23_Witness ==
    /\ pc = "detect" /\ dt_i > 1
    /\ \E i \in DOMAIN TestLabels :
          /\ TestLabels[i] = "spine"
          /\ Cat(i).pattern_matches = 0
          /\ Cat(i).keyword_matches = 5
          /\ Cat(i).has_declaration
          /\ EmittedFor(i)
    /\ Detected[1].confidence = Tenths(5)

\* the segment that starts at a time, the place of a label in the taxonomy
\* and the place of a flag type in one iteration of the demeanor loop
SegAt(t) == CHOOSE i \in DOMAIN Segs : SegStart(i) = t
TaxonomyIndex(label) == CHOOSE i \in DOMAIN TestLabels : TestLabels[i] = label
FlagRank(flag_type) ==
    CASE flag_type = "interruption"  -> 0
      [] flag_type = "negative_tone" -> 1
      [] flag_type = "dismissive"    -> 2
      [] flag_type = "aggressive"    -> 3
      [] OTHER                       -> 4

\* C30: declared tests are listed in segment order and, within a segment, in
\* taxonomy order; demeanor flags are listed in segment order and, within a
\* segment, the interruption flag first, then the negative_tone, dismissive
\* and aggressive flags; the negative_sentiment flag, if any, is the last of
\* the list whatever its timestamp.
C30_OutputOrder ==
    DistinctStarts =>
        /\ \A j, k \in DOMAIN declared_tests :
              j < k =>
                 LET a == declared_tests[j]
                     b == declared_tests[k]
                 IN  \/ SegAt(a.timestamp) < SegAt(b.timestamp)
                     \/ /\ SegAt(a.timestamp) = SegAt(b.timestamp)
                        /\ TaxonomyIndex(a.label) < TaxonomyIndex(b.label)
        /\ \A j, k \in DOMAIN demeanor_flags \ SentimentAt :
              j < k =>
                 LET a == demeanor_flags[j]
                     b == demeanor_flags[k]
                 IN  \/ SegAt(a.timestamp) < SegAt(b.timestamp)
                     \/ /\ SegAt(a.timestamp) = SegAt(b.timestamp)
                        /\ FlagRank(a.flag_type) <= FlagRank(b.flag_type)
        /\ \A j \in SentimentAt : j = Len(demeanor_flags)

\* a result with tests of two segments, an interruption flag ahead of the
\* tone flag of its segment, and last a negative_sentiment flag whose
\* timestamp is earlier than that of the flag before it
C30_Witness ==
    /\ pc = "done" /\ DistinctStarts
    /\ Len(result.declared_tests) >= 2
    /\ result.declared_tests[1].timestamp < result.declared_tests[2].timestamp
    /\ \E j \in DOMAIN demeanor_flags :
          /\ demeanor_flags[j].flag_type = "interruption"
          /\ j + 1 \in DOMAIN demeanor_flags
          /\ demeanor_flags[j + 1].flag_type = "aggressive"
          /\ demeanor_flags[j + 1].timestamp = demeanor_flags[j].timestamp
    /\ Len(demeanor_flags) \in SentimentAt
    /\ demeanor_flags[Len(demeanor_flags)].timestamp
          < demeanor_flags[Len(demeanor_flags) - 1].timestamp

\* both jobs have completed
BothCompleted ==
    /\ Get(motion_analysis, "status", None) = "COMPLETED"
    /\ Get(pose_analysis, "status", None) = "COMPLETED"

\* C24: _compare_with_expectations returns 'performed', 'full_match' and
\* 0.75 iff both jobs report COMPLETED and 'unknown', 'unknown' and 0.5 in
\* every other case, whatever the expectations of the test type; it never
\* returns 'brief', 'not_observed', 'partial' or 'no_match'.
C24_StubVerdict ==
    video_pc = "compared" =>
        /\ BothCompleted <=>
              /\ comparison.motion_present = "performed"
              /\ comparison.pose_match = "full_match"
              /\ comparison.confidence_score = 75
        /\ ~BothCompleted =>
              /\ comparison.motion_present = "unknown"
              /\ comparison.pose_match = "unknown"
              /\ comparison.confidence_score = 50
        /\ comparison.motion_present \notin {"brief", "not_observed"}
        /\ comparison.pose_match \notin {"partial", "no_match"}

\* the verdict 'performed' for a test type whose profile requires patient
\* motion, both jobs completed
C24_Witness ==
    /\ video_pc = "compared"
    /\ BothCompleted
    /\ comparison.motion_present = "performed"
    /\ comparison.patient_motion_required

\* a job that is still in progress, or that failed to start
NotFinished(analysis) ==
    Get(analysis, "status", None) = "IN_PROGRESS" \/ "error" \in DOMAIN analysis

\* C25: the comparison reports analysis_status 'completed' only when both
\* jobs have completed; while the motion job or the pose job is in progress
\* or failed to start it reports 'pending', and never 'completed' together
\* with motion_present 'unknown'.
C25_CompletedOnlyWhenBothDone ==
    comparison # EmptyDict =>
        /\ comparison.analysis_status = "completed" => BothCompleted
        /\ (NotFinished(motion_analysis) \/ NotFinished(pose_analysis)) =>
              comparison.analysis_status = "pending"
        /\ ~(comparison.analysis_status = "completed"
               /\ comparison.motion_present = "unknown")

\* an attempt to start a job was made, or a job was started
AnalysisBegun ==
    motion_analysis # EmptyDict \/ pose_analysis # EmptyDict \/ rekognition_jobs # <<>>

\* C26: the analysis runs only after the extraction returned a segment key.
\* When the extraction fails no job is started and the result is an error
\* without status 'completed'; a result with status 'completed' carries
\* the extracted segment key and an analysis of that segment for the label
\* of the declared test.
C26_AnalysisAfterExtraction ==
    /\ AnalysisBegun => (segment_key # None /\ video_pc \notin {"start", "idle"})
    /\ \A j \in DOMAIN rekognition_jobs : rekognition_jobs[j].video = segment_key
    /\ (video_pc = "done" /\ segment_key = None) =>
          /\ ~AnalysisBegun
          /\ "error" \in DOMAIN video_result
          /\ Get(video_result, "status", None) # "completed"
    /\ Get(video_result, "status", None) = "completed" =>
          /\ segment_key # None
          /\ video_result.segment_key = segment_key
          /\ video_result.analysis.segment_key = segment_key
          /\ video_result.analysis.test_type = Get(declared_test, "label", "unknown")
          /\ video_result.test_type = Get(declared_test, "label", "unknown")
          /\ video_result.analysis.comparison = comparison

\* a completed result for the label 'gait' whose two jobs were started on
\* the extracted segment
C26_Witness ==
    /\ video_pc = "done"
    /\ Get(video_result, "status", None) = "completed"
    /\ video_result.test_type = "gait"
    /\ Len(rekognition_jobs) = 2
    /\ video_result.segment_key = "cme-segments/session-1/segment_45_60.mp4"

(***************************************************************************)
(* Properties of the API handler                                           *)
(***************************************************************************)

\* the attribute of a stored session, None when the session or the attribute
\* is missing
Attr(table, id, name) ==
    IF id \in DOMAIN table THEN Get(table[id], name, None) ELSE None

\* the request just served was a POST to path and was answered with a code
\* of codes
Answered(path, codes) ==
    /\ request'.httpMethod = "POST"
    /\ request'.path = path
    /\ api_response'.statusCode \in codes

\* C27: a session's status becomes 'processing' only in a step before which
\* the session was stored with a non-empty video_uri, a video_uri is written
\* only by an accepted upload (200) for that session, and a start-processing
\* request answered 400 or 404 changes no stored session and starts no
\* transcription job.
C27_ProcessingNeedsRecording ==
    [][/\ \A id \in DOMAIN sessions_table' :
            (/\ Attr(sessions_table', id, "status") = "processing"
             /\ Attr(sessions_table, id, "status") # "processing")
                => /\ id \in DOMAIN sessions_table
                   /\ Truthy(Attr(sessions_table, id, "video_uri"))
       /\ \A id \in DOMAIN sessions_table' :
            (/\ Truthy(Attr(sessions_table', id, "video_uri"))
             /\ Attr(sessions_table', id, "video_uri")
                    # Attr(sessions_table, id, "video_uri"))
                => /\ Answered("/cme/upload", {200})
                   /\ request'.body.session_id = id
       /\ Answered("/cme/process", {400, 404})
            => UNCHANGED <<sessions_table, transcription_jobs>>]_vars

\* a session is being processed after its upload, and a start-processing
\* request for an unknown session was then refused with 404
C27_Witness ==
    /\ \E id \in DOMAIN sessions_table :
        /\ Attr(sessions_table, id, "status") = "processing"
        /\ Truthy(Attr(sessions_table, id, "video_uri"))
    /\ Len(transcription_jobs) = 1
    /\ UNKNOWN_ID \notin DOMAIN sessions_table
    /\ request = Event("/cme/process", [session_id |-> UNKNOWN_ID])
    /\ Get(api_response, "statusCode", 0) = 404

\* C28: a session in status 'processing' with stage 'transcription' has a
\* transcription job that was started for it, and a start-processing request
\* is answered 200 only with a started job.
C28_ProcessingOnlyWhenJobStarted ==
    /\ \A id \in DOMAIN sessions_table :
        (/\ Attr(sessions_table, id, "status") = "processing"
         /\ Attr(sessions_table, id, "processing_stage") = "transcription")
            => \E j \in 1..Len(transcription_jobs) :
                transcription_jobs[j].MedicalTranscriptionJobName
                    = "cme-transcribe-" \o id
    /\ (/\ request # EmptyDict
        /\ request.httpMethod = "POST"
        /\ request.path = "/cme/process"
        /\ api_response.statusCode = 200)
            => "error" \notin DOMAIN api_response.body.transcription_job

\* the media kind of a content type: video for video/*, audio otherwise
MediaKind(content_type) ==
    IF StartsWith(content_type, "video/") THEN "video" ELSE "audio"

\* C29: an upload is accepted (200) only for a stored session whose recording
\* rules permit the media kind of the upload, and an upload refused with 400,
\* 403 or 404 changes no stored session.
C29_UploadNeedsPermission ==
    [][/\ Answered("/cme/upload", {200})
            => /\ request'.body.session_id \in DOMAIN sessions_table
               /\ Get(Get(sessions_table[request'.body.session_id],
                          "recording_allowed", EmptyDict),
                      MediaKind(Get(request'.body, "content_type", "video/mp4")),
                      FALSE)
       /\ Answered("/cme/upload", {400, 403, 404})
            => UNCHANGED sessions_table]_vars

============================================================================
